---------------------------- MODULE Spec2Model ----------------------------
(***************************************************************************)
(* Model of the message-broker client of src/src/messaging/connection.ts:  *)
(* the RabbitMQConnection class (connect, getChannel, sendToQueue,         *)
(* consume, rpc).  The broker is the environment: it holds the queues,     *)
(* hands deliveries to the registered callbacks and carries out acks and   *)
(* nacks.                                                                  *)
(***************************************************************************)
EXTENDS Naturals, Sequences, FiniteSets

(***************************************************************************)
(* Bounds of the model.                                                    *)
(***************************************************************************)
\* messages published to rpc reply queues, over all calls
MaxReplies == 2
\* the per-message delivery counter stops counting here
MaxDeliveries == 3

(***************************************************************************)
(* Inputs.                                                                 *)
(***************************************************************************)
\* the rpc calls in flight
Calls == {"c1", "c2"}
\* request.id values a caller may pass to rpc
Ids == {"a", "b"}
\* message bodies as they travel: two JSON texts and one text that is no JSON
ValidBodies == {"{v:1}", "{v:2}"}
Bodies == ValidBodies \cup {"<garbage>"}
\* the messages published to the consumed queue, and their bodies
Msgs == {"m1", "m2"}
MsgBodies == {"{v:1}", "<garbage>"}

VARIABLES
  connection,   \* this.connection: "null" or "conn"
  connected,    \* this.connected
  channels,     \* keys of this.channels
  rpcPc,        \* per rpc call: the await the executor is suspended at
  reqId,        \* per rpc call: request.id (= correlationId)
  tempQueue,    \* per rpc call: the reply queue exists on the broker
  consumer,     \* per rpc call: the reply-queue subscription is active
  replies,      \* per rpc call: messages published to the reply queue, in order,
                \* each with its state (ready, unacked, acked) and, once delivered,
                \* the promise and the timer as they were at the delivery and
                \* whether the delivery settled the promise
  timer,        \* per rpc call: the setTimeout of line 300
  promise,      \* per rpc call: the promise returned by rpc
  request,      \* per rpc call: what sendToQueue did with the request
  thrown,       \* per rpc call: the reply callback threw
  subscribed,   \* consume(queue, handler) has registered its callback
  content,      \* per message: the body published ("" before it is published)
  poison,       \* per message: the handler fails on every delivery of it
  ready,        \* the consumed queue: messages waiting for delivery, head first
  inflight,     \* messages delivered whose handler has not finished
  acked,        \* messages removed from the queue by an ack
  dlq,          \* messages in dead-letter-queue
  delivs,       \* per message: deliveries to the callback so far (saturating)
  last,         \* per message: its latest delivery, how far the callback is with it
                \* and what the callback sent to the broker for it
  hist,         \* per message: what the callback did with each delivery it has
                \* finished, oldest first (the first MaxDeliveries of them)
  connOpen,     \* the connection held in this.connection is open
  chans,        \* the channels createChannel has made, in order; each with the
                \* name it was made for, whether its connection is the one in
                \* this.connection, whether it is open, and its prefetch count
  chanVal,      \* values of this.channels: per name the channel stored (0: none)
  gPc,          \* per getChannel caller: the await it is suspended at
  gName,        \* per getChannel caller: the name it asked for
  gNew,         \* per getChannel caller: the channel it created (0: none)
  gRet,         \* per getChannel caller: the channel it got, with this.connected
                \* and the channel's state as they were at the return
  held,         \* per caller of consume: deliveries to its consumer not yet settled
  sent,         \* per caller of publish / sendToQueue: what the call returned
  disc,         \* the state disconnect() left when it last returned
  broker,       \* the exchanges, queues and bindings that exist on the broker
  declPc,       \* the item connect() declares next (0: no declaration running)
  runs,         \* connect() calls that got a connection
  done,         \* connect() calls that resolved
  before,       \* the broker's topology when the latest declaration started
  asserts,      \* declarations sent to the broker by the latest connect()
  failedAt,     \* the item the broker refused in the latest connect() (0: none)
  connectResult, \* the promise of the latest connect()
  retryPc,      \* publishWithRetry: where the call is (idle, loop, wait, returned, threw)
  maxRetries,   \* publishWithRetry: its argument maxRetries
  delayMs,      \* publishWithRetry: its argument delayMs
  retryI,       \* publishWithRetry: the loop variable i
  opResults,    \* publishWithRetry: what each invocation of publishFunction did
  waits,        \* publishWithRetry: the delay waited after each finished attempt
                \* (0: the next step followed at once)
  retryResult,  \* publishWithRetry: what the call returned or threw
  env,          \* the envelope at hand (undefined: none yet)
  made,         \* who built the envelope at hand
  handed,       \* what publish / sendToQueue handed to the channel for it
  parsed,       \* what JSON.parse made of the body on the consumer's side
  bindings,     \* the binding keys that bind the consumed queue to payment.events
  pub,          \* per message: the envelope publish was called with (undefined:
                \* the message is not an envelope published to payment.events)
  wire,         \* per message: the body publish wrote for that envelope
  got,          \* per message: the envelope the handler was last called with
  replyQ,       \* per rpc call: the reply queue it declared (name "": none yet)
  reqProps,     \* per rpc call: the options its request was handed over with
  gQueue,       \* per caller of consume: the queue it consumes ("": none)
  lost          \* what the latest 'error' / 'close' handler of the connection did

connVars == <<connection, connected, channels>>
rpcVars == <<rpcPc, reqId, tempQueue, consumer, replies, timer, promise, request, thrown>>
msgVars == <<subscribed, content, poison, ready, inflight, acked, dlq, delivs, last, hist>>
poolVars == <<connOpen, chans, chanVal, gPc, gName, gNew, gRet, held, sent, disc>>
topoVars == <<broker, declPc, runs, done, before, asserts, failedAt, connectResult>>
retryVars == <<retryPc, maxRetries, delayMs, retryI, opResults, waits, retryResult>>
envVars == <<env, made, handed, parsed>>
scenVars == <<bindings, pub, wire, got>>
rpcWireVars == <<replyQ, reqProps>>
queueVars == <<gQueue>>
lossVars == <<lost>>
helperVars == <<retryVars, envVars, scenVars, rpcWireVars, queueVars, lossVars>>
vars == <<connVars, rpcVars, msgVars, poolVars, topoVars, helperVars>>

(***************************************************************************)
(* Promises: a promise settles once; resolve and reject on a settled       *)
(* promise do nothing.                                                     *)
(***************************************************************************)
Pending == [state |-> "pending", val |-> 0, err |-> "none"]
Resolved(v) == [state |-> "resolved", val |-> v, err |-> "none"]
Rejected(e) == [state |-> "rejected", val |-> 0, err |-> e]

\* a promise that takes every outcome
SettleOverwrite(p, outcome) == outcome

Settle(p, outcome) == IF p.state = "pending" THEN outcome ELSE p

(***************************************************************************)
(* Envelopes.  A JavaScript value is a record of one shape: t is its type,  *)
(* s, n and b hold a string, a number or a boolean, o the own properties   *)
(* of an object.  A property whose value is undefined is an own property.   *)
(***************************************************************************)
NoMembers == [k \in {} |-> 0]
Undefined == [t |-> "undefined", s |-> "", n |-> 0, b |-> FALSE, o |-> NoMembers]
Str(x) == [t |-> "string", s |-> x, n |-> 0, b |-> FALSE, o |-> NoMembers]
Num(x) == [t |-> "number", s |-> "", n |-> x, b |-> FALSE, o |-> NoMembers]
Bool(x) == [t |-> "boolean", s |-> "", n |-> 0, b |-> x, o |-> NoMembers]
Obj(members) == [t |-> "object", s |-> "", n |-> 0, b |-> FALSE, o |-> members]

\* value.key: undefined when the value has no such property
Get(value, key) ==
  IF value.t = "object" /\ key \in DOMAIN value.o THEN value.o[key] ELSE Undefined

\* the text JSON.stringify writes, as the tree of its tokens: a string literal,
\* a number literal, true / false, or { "key": text, ... }
JsonOf(value, members) ==
  [t |-> CASE value.t = "string" -> "jstring"
           [] value.t = "number" -> "jnumber"
           [] value.t = "boolean" -> "jboolean"
           [] value.t = "object" -> "jobject"
           [] OTHER -> "none",
   s |-> value.s, n |-> value.n, b |-> value.b, o |-> members]

NoText == JsonOf(Undefined, NoMembers)

\* JSON.stringify leaves out the properties whose value is undefined
Written(value) == {k \in DOMAIN value.o : value.o[k].t # "undefined"}

\* a serializer that writes nested objects as {}
StringifyShallow(value) ==
  JsonOf(value, [k \in Written(value) |-> JsonOf(value.o[k], NoMembers)])

\* lines 189 and 219: JSON.stringify(message)
RECURSIVE Stringify(_)
Stringify(value) ==
  JsonOf(value, [k \in Written(value) |-> Stringify(value.o[k])])

\* line 244: JSON.parse(msg.content.toString()) of a text JSON.stringify wrote
RECURSIVE Parse(_)
Parse(text) ==
  CASE text.t = "jstring" -> Str(text.s)
    [] text.t = "jnumber" -> Num(text.n)
    [] text.t = "jboolean" -> Bool(text.b)
    [] text.t = "jobject" -> Obj([k \in DOMAIN text.o |-> Parse(text.o[k])])
    [] OTHER -> Undefined

\* { ...base, ...over }: the properties of over replace those of base;
\* spreading undefined adds nothing
Spread(base, over) ==
  IF over.t # "object" THEN base
  ELSE Obj([k \in DOMAIN base.o \cup DOMAIN over.o |->
              IF k \in DOMAIN over.o THEN over.o[k] ELSE base.o[k]])

\* lines 181-187 and 211-217: { persistent: true, messageId: message.id,
\* timestamp: message.timestamp, type: message.type, ...options }
MessageOptions(message, options) ==
  Spread(Obj([persistent |-> Bool(TRUE), messageId |-> Get(message, "id"),
              timestamp |-> Get(message, "timestamp"), type |-> Get(message, "type")]),
         options)

\* JSON.parse of a message body: the value, or a SyntaxError
JsonParse(body) ==
  CASE body = "{v:1}" -> [ok |-> TRUE, val |-> 1]
    [] body = "{v:2}" -> [ok |-> TRUE, val |-> 2]
    [] body = "{envelope}" -> [ok |-> TRUE, val |-> 0]
    [] OTHER -> [ok |-> FALSE, val |-> 0]

(***************************************************************************)
(* connect(): amqplib.connect either throws (nothing is assigned) or       *)
(* returns the connection; the topology is then declared on the 'init'     *)
(* channel.                                                                *)
(***************************************************************************)
ConnectFields(ok) ==
  IF ok
    THEN /\ connection' = "conn"
         /\ connected' = TRUE
         /\ channels' = channels \cup {"init"}
    ELSE UNCHANGED connVars

Connect(ok) ==
  /\ ConnectFields(ok)
  /\ UNCHANGED <<rpcVars, msgVars, poolVars, topoVars, helperVars>>

\* getChannel(name): the cached channel, an error without a connection, or a
\* new channel that is cached
GetChannelThrows(name) == name \notin channels /\ connection = "null"

GetChannelMap(name) == channels \cup {name}

\* channel.prefetch(10) of getChannel, line 170: the deliveries a consumer may hold
\* without having acked or nacked them
Prefetch == 10

(***************************************************************************)
(* rpc(queue, request, timeoutMs)                                          *)
(***************************************************************************)
\* the calls are named in the order they are made, and the ids in the order they
\* are first used
RpcCall(c, id) ==
  /\ rpcPc[c] = "idle"
  /\ c = "c1" => id = "a"
  /\ c = "c2" => rpcPc["c1"] # "idle"
  /\ rpcPc' = [rpcPc EXCEPT ![c] = "getChannel"]
  /\ reqId' = [reqId EXCEPT ![c] = id]
  /\ UNCHANGED <<msgVars, poolVars, topoVars, helperVars, connVars, tempQueue, consumer, replies, timer, promise, request, thrown>>

\* line 273, and the catch of line 304 when getChannel throws
RpcGetChannel(c) ==
  /\ rpcPc[c] = "getChannel"
  /\ IF GetChannelThrows("rpc")
       THEN /\ promise' = [promise EXCEPT ![c] = Settle(@, Rejected("RabbitMQ not connected"))]
            /\ rpcPc' = [rpcPc EXCEPT ![c] = "failed"]
            /\ UNCHANGED channels
       ELSE /\ channels' = GetChannelMap("rpc")
            /\ rpcPc' = [rpcPc EXCEPT ![c] = "assertQueue"]
            /\ UNCHANGED promise
  /\ UNCHANGED <<msgVars, poolVars, topoVars, helperVars, connection, connected, reqId, tempQueue, consumer, replies, timer, request, thrown>>

\* the names the broker gives to queues declared with the name ''
ServerNames == {"amq.gen-1", "amq.gen-2"}

NoQueue == [name |-> "", exclusive |-> FALSE, autoDelete |-> FALSE]

\* a reply queue named after the request (the unused replyQueue of line 275)
NamedByCorrelation(c) == "rpc-reply"

\* line 278, assertQueue(''): the broker makes up a name for every such
\* declaration, one it gives to no other queue; each call declares once
NamedByServer(c) == IF c = "c1" THEN "amq.gen-1" ELSE "amq.gen-2"

\* line 278: { exclusive: true, autoDelete: true }
ReplyQueue(name) == [name |-> name, exclusive |-> TRUE, autoDelete |-> TRUE]

\* an rpc that sends the request right after the reply queue is created
RpcAssertQueueThenSend(c) ==
  /\ rpcPc[c] = "assertQueue"
  /\ tempQueue' = [tempQueue EXCEPT ![c] = TRUE]
  /\ replyQ' = [replyQ EXCEPT ![c] = ReplyQueue(NamedByServer(c))]
  /\ rpcPc' = [rpcPc EXCEPT ![c] = "send"]
  /\ UNCHANGED <<msgVars, poolVars, topoVars, retryVars, envVars, scenVars, reqProps,
                 connVars, reqId, consumer, replies, timer, promise, request, thrown, queueVars, lossVars>>

\* line 278: the broker creates the exclusive, auto-delete reply queue
RpcAssertQueue(c) ==
  /\ rpcPc[c] = "assertQueue"
  /\ tempQueue' = [tempQueue EXCEPT ![c] = TRUE]
  /\ replyQ' = [replyQ EXCEPT ![c] = ReplyQueue(NamedByServer(c))]
  /\ rpcPc' = [rpcPc EXCEPT ![c] = "consume"]
  /\ UNCHANGED <<msgVars, poolVars, topoVars, retryVars, envVars, scenVars, reqProps,
                 connVars, reqId, consumer, replies, timer, promise, request, thrown, queueVars, lossVars>>

\* line 281: the callback is registered on the reply queue
RpcConsume(c) ==
  /\ rpcPc[c] = "consume"
  /\ consumer' = [consumer EXCEPT ![c] = TRUE]
  /\ rpcPc' = [rpcPc EXCEPT ![c] = "send"]
  /\ UNCHANGED <<msgVars, poolVars, topoVars, helperVars, connVars, reqId, tempQueue, replies, timer, promise, request, thrown>>

\* no timer is started
NoTimeout(t) == t

\* setTimeout, line 300: the timer of the call after it

SetTimeout(t) == "armed"

\* a request that names the queue of line 275 as its reply queue
ReplyToByCorrelation(c) == "rpc-reply"

\* line 296: replyTo: tempQueue
ReplyTo(c) == replyQ[c].name

\* lines 294-297 and 211-217: the options sendToQueue hands over with the request
RequestOptions(c) ==
  MessageOptions(Obj([id |-> Str(reqId[c])]),
                 Obj([correlationId |-> Str(reqId[c]), replyTo |-> Str(ReplyTo(c))]))

\* an rpc that rejects at once, and starts no timer, when sendToQueue returned
\* false
RpcSendRejects(c, accepted) ==
  /\ rpcPc[c] = "send"
  /\ channels' = GetChannelMap("publisher")
  /\ request' = [request EXCEPT ![c] = IF accepted THEN "sent" ELSE "refused"]
  /\ reqProps' = [reqProps EXCEPT ![c] = IF accepted THEN RequestOptions(c) ELSE @]
  /\ timer' = [timer EXCEPT ![c] = IF accepted THEN SetTimeout(@) ELSE @]
  /\ promise' = [promise EXCEPT ![c] =
       IF accepted THEN @ ELSE Settle(@, Rejected("publish failed"))]
  /\ rpcPc' = [rpcPc EXCEPT ![c] = "done"]
  /\ UNCHANGED <<msgVars, poolVars, topoVars, retryVars, envVars, scenVars, replyQ,
                 connection, connected, reqId, tempQueue, consumer, replies, thrown, queueVars, lossVars>>

\* lines 294-302: sendToQueue never throws; it returns false when the channel's
\* write buffer is full (line 225) and from its catch (lines 229-232), and rpc
\* does not look at what it returns; once it has returned the timer is started
\* in the same turn of the event loop
RpcSend(c, accepted) ==
  /\ rpcPc[c] = "send"
  /\ channels' = GetChannelMap("publisher")
  /\ request' = [request EXCEPT ![c] = IF accepted THEN "sent" ELSE "refused"]
  /\ reqProps' = [reqProps EXCEPT ![c] = IF accepted THEN RequestOptions(c) ELSE @]
  /\ timer' = [timer EXCEPT ![c] = SetTimeout(@)]
  /\ rpcPc' = [rpcPc EXCEPT ![c] = "done"]
  /\ UNCHANGED <<msgVars, poolVars, topoVars, retryVars, envVars, scenVars, replyQ,
                 connection, connected, reqId, tempQueue, consumer, replies, promise, thrown, queueVars, lossVars>>

\* lines 300-302: the timer fires and rejects
TimerFire(c) ==
  /\ timer[c] = "armed"
  /\ timer' = [timer EXCEPT ![c] = "fired"]
  /\ promise' = [promise EXCEPT ![c] = Settle(@, Rejected("RPC timeout"))]
  /\ UNCHANGED <<msgVars, poolVars, topoVars, helperVars, connVars, rpcPc, reqId, tempQueue, consumer, replies, request, thrown>>

RECURSIVE SumLen(_, _)
SumLen(f, S) == IF S = {} THEN 0
                ELSE LET x == CHOOSE y \in S : TRUE IN Len(f[x]) + SumLen(f, S \ {x})

\* messages published to reply queues so far
TotalReplies == SumLen(replies, Calls)

\* a responder (or any other publisher) puts a message on the reply queue
ReplyArrives(c, corr, body) ==
  /\ tempQueue[c]
  /\ TotalReplies < MaxReplies
  /\ replies' = [replies EXCEPT ![c] = Append(@,
        [corr |-> corr, body |-> body, st |-> "ready",
         promAt |-> "n/a", timerAt |-> "n/a", won |-> FALSE])]
  /\ UNCHANGED <<msgVars, poolVars, topoVars, helperVars, connVars, rpcPc, reqId, tempQueue, consumer, timer, promise, request, thrown>>

(***************************************************************************)
(* The reply callback, lines 281-291, on a delivery with correlation id    *)
(* corr and the given body, for a call whose request.id is id: whether the *)
(* delivery is acked, how the promise is settled, whether the callback     *)
(* throws.                                                                 *)
(***************************************************************************)
Ignore == [ack |-> FALSE, settle |-> FALSE, outcome |-> Pending, throws |-> FALSE]

\* the callback without its ack
ReplyHandlerNoAck(id, corr, body) ==
  IF corr # id
    THEN Ignore
    ELSE LET r == JsonParse(body) IN
         IF r.ok
           THEN [ack |-> FALSE, settle |-> TRUE, outcome |-> Resolved(r.val), throws |-> FALSE]
           ELSE [ack |-> FALSE, settle |-> TRUE, outcome |-> Rejected("SyntaxError"), throws |-> FALSE]

\* the callback resolving without the parsed value
ReplyHandlerRaw(id, corr, body) ==
  IF corr # id
    THEN Ignore
    ELSE LET r == JsonParse(body) IN
         IF r.ok
           THEN [ack |-> TRUE, settle |-> TRUE, outcome |-> Resolved(0), throws |-> FALSE]
           ELSE [ack |-> FALSE, settle |-> TRUE, outcome |-> Rejected("SyntaxError"), throws |-> FALSE]

ReplyHandler(id, corr, body) ==
  IF corr # id
    THEN Ignore
    ELSE LET r == JsonParse(body) IN
         IF r.ok
           THEN [ack |-> TRUE, settle |-> TRUE, outcome |-> Resolved(r.val), throws |-> FALSE]
           ELSE [ack |-> FALSE, settle |-> TRUE, outcome |-> Rejected("SyntaxError"), throws |-> FALSE]

FirstReady(s) == CHOOSE i \in 1..Len(s) : s[i].st = "ready" /\ \A j \in 1..(i-1) : s[j].st # "ready"

HasReady(s) == \E i \in 1..Len(s) : s[i].st = "ready"

\* the broker delivers the oldest waiting message of the reply queue to the
\* subscription, which runs the callback
Unacked(s) == {i \in 1..Len(s) : s[i].st = "unacked"}

DeliverReply(c) ==
  /\ consumer[c]
  /\ HasReady(replies[c])
  /\ Cardinality(Unacked(replies[c])) < Prefetch
  /\ LET i == FirstReady(replies[c])
         m == replies[c][i]
         h == ReplyHandler(reqId[c], m.corr, m.body)
     IN /\ replies' = [replies EXCEPT ![c][i] =
              [m EXCEPT !.st = IF h.ack THEN "acked" ELSE "unacked",
                        !.promAt = promise[c].state,
                        !.timerAt = timer[c],
                        !.won = h.settle /\ promise[c].state = "pending"]]
        /\ promise' = [promise EXCEPT ![c] = IF h.settle THEN Settle(@, h.outcome) ELSE @]
        /\ thrown' = [thrown EXCEPT ![c] = @ \/ h.throws]
  /\ UNCHANGED <<msgVars, poolVars, topoVars, helperVars, connVars, rpcPc, reqId, tempQueue, consumer, timer, request>>


(***************************************************************************)
(* consume(queue, handler, options), lines 236-267.                        *)
(***************************************************************************)
\* lines 237-266: the callback is registered on the channel 'consumer:<queue>';
\* an error of getChannel is logged and thrown on to the caller
Consume ==
  /\ IF GetChannelThrows("consumer:queue")
       THEN UNCHANGED <<channels, subscribed>>
       ELSE /\ channels' = GetChannelMap("consumer:queue")
            /\ subscribed' = TRUE
  /\ UNCHANGED <<connection, connected, rpcVars, poolVars, topoVars, helperVars, content, poison, ready, inflight, acked, dlq, delivs, last, hist>>

\* a publisher puts a message on the queue; p says that the handler fails on it
\* whenever it gets it
Publish(m, b, p) ==
  /\ content[m] = ""
  /\ p => JsonParse(b).ok
  /\ content' = [content EXCEPT ![m] = b]
  /\ poison' = [poison EXCEPT ![m] = p]
  /\ ready' = Append(ready, m)
  /\ UNCHANGED <<connVars, rpcVars, poolVars, topoVars, helperVars, subscribed, inflight, acked, dlq, delivs, last, hist>>

\* what the callback sends to the broker for a delivery
\* rethrow: the error leaves the callback
Ack == [acks |-> 1, nacks |-> 0, requeue |-> FALSE, rethrow |-> FALSE]
\* a catch that nacks a delivery the try has acked
NackAfterAck(requeue) == [acks |-> 1, nacks |-> 1, requeue |-> requeue, rethrow |-> FALSE]
Nack(requeue) == [acks |-> 0, nacks |-> 1, requeue |-> requeue, rethrow |-> FALSE]

\* lines 254-258 entered from JSON.parse (line 244) throwing
OnParseError == Nack(TRUE)

\* a callback that nacks whatever the handler did
OnHandlerResultNack(ok) == Nack(TRUE)

\* a callback that does not requeue after a failure
OnHandlerResultDrop(ok) == IF ok THEN Ack ELSE Nack(FALSE)

\* a callback whose catch throws the handler's error on
OnHandlerResultRethrow(ok) == IF ok THEN Ack ELSE [Nack(TRUE) EXCEPT !.rethrow = TRUE]

\* lines 249-252 when the handler returns, lines 254-258 when it throws or rejects
OnHandlerResult(ok) == IF ok THEN Ack ELSE Nack(TRUE)

\* a broker that puts every settled message back into the queue
RequeuedAlways(v) == v.nacks > 0 \/ v.acks > 0

\* the broker carries out an ack or a nack of a delivery of m; a queue declared
\* with x-dead-letter-exchange (line 143) dead-letters what is not requeued
Requeued(v) == v.acks = 0 /\ v.nacks > 0 /\ v.requeue
DeadLettered(v) == v.acks = 0 /\ v.nacks > 0 /\ ~v.requeue

Count(n) == IF n < MaxDeliveries THEN n + 1 ELSE n

\* the record of a finished delivery is kept
Record(h, d) == IF Len(h) < MaxDeliveries THEN Append(h, d) ELSE h

\* an error that leaves the callback is an unhandled rejection: it ends the
\* consuming process and with it the subscription
Survives(v) == ~v.rethrow

\* a delivery the callback has not acted on
NoDelivery ==
  [phase |-> "none", parsed |-> FALSE, handler |-> "none",
   acks |-> 0, nacks |-> 0, requeue |-> FALSE]

\* the broker sends the head of the queue to the consumer, within its prefetch
\* window
Deliver ==
  /\ subscribed
  /\ ready # <<>>
  /\ Cardinality(inflight) < Prefetch
  /\ LET m == Head(ready)
     IN /\ ready' = Tail(ready)
        /\ inflight' = inflight \cup {m}
        /\ delivs' = [delivs EXCEPT ![m] = Count(@)]
        /\ last' = [last EXCEPT ![m] = [NoDelivery EXCEPT !.phase = "delivered"]]
  /\ UNCHANGED <<connVars, rpcVars, poolVars, topoVars, helperVars, subscribed, content, poison, acked, dlq, hist>>

\* a callback that calls the handler with the raw body
HandlerArgRaw(m) == Str("<buffer>")

\* lines 244-249: the handler is called with JSON.parse of the body; kept for the
\* envelopes published to payment.events, whose body is in wire
HandlerArg(m) == IF content[m] = "{envelope}" THEN Parse(wire[m]) ELSE Undefined

\* the callback starts on a delivery: lines 241-249 run up to the await of the
\* handler, or to the nack of line 258 when the body does not parse
Callback(m) ==
  /\ m \in inflight
  /\ last[m].phase = "delivered"
  /\ LET v == OnParseError
     IN IF JsonParse(content[m]).ok
          THEN /\ last' = [last EXCEPT ![m].phase = "handler", ![m].parsed = TRUE]
               /\ got' = [got EXCEPT ![m] = HandlerArg(m)]
               /\ UNCHANGED <<ready, inflight, acked, dlq, hist, subscribed>>
          ELSE /\ inflight' = inflight \ {m}
               /\ ready' = IF Requeued(v) THEN <<m>> \o ready ELSE ready
               /\ acked' = IF v.acks > 0 THEN acked \cup {m} ELSE acked
               /\ dlq' = IF DeadLettered(v) THEN dlq \cup {m} ELSE dlq
               /\ last' = [last EXCEPT ![m] =
                    [phase |-> "done", parsed |-> FALSE, handler |-> "none",
                     acks |-> v.acks, nacks |-> v.nacks, requeue |-> v.requeue]]
               /\ hist' = [hist EXCEPT ![m] = Record(@, last'[m])]
               /\ subscribed' = (subscribed /\ Survives(v))
               /\ UNCHANGED got
  /\ UNCHANGED <<connVars, rpcVars, poolVars, topoVars, retryVars, envVars, bindings,
                 pub, wire, content, poison, delivs, rpcWireVars, queueVars, lossVars>>

\* the handler's promise settles: line 252 or lines 254-258
HandlerReturns(m, ok) ==
  /\ m \in inflight
  /\ last[m].phase = "handler"
  /\ poison[m] => ~ok
  /\ LET v == OnHandlerResult(ok)
     IN /\ inflight' = inflight \ {m}
        /\ ready' = IF Requeued(v) THEN <<m>> \o ready ELSE ready
        /\ acked' = IF v.acks > 0 THEN acked \cup {m} ELSE acked
        /\ dlq' = IF DeadLettered(v) THEN dlq \cup {m} ELSE dlq
        /\ last' = [last EXCEPT ![m] =
             [phase |-> "done", parsed |-> TRUE, handler |-> IF ok THEN "ok" ELSE "fail",
              acks |-> v.acks, nacks |-> v.nacks, requeue |-> v.requeue]]
        /\ hist' = [hist EXCEPT ![m] = Record(@, last'[m])]
        /\ subscribed' = (subscribed /\ Survives(v))
  /\ UNCHANGED <<connVars, rpcVars, poolVars, topoVars, helperVars, content, poison, delivs>>

\* x-message-ttl (line 144): the broker dead-letters a message that has waited at
\* the head of the queue for 24 hours
Expire ==
  /\ ready # <<>>
  /\ dlq' = dlq \cup {Head(ready)}
  /\ ready' = Tail(ready)
  /\ UNCHANGED <<connVars, rpcVars, poolVars, topoVars, helperVars, subscribed, content, poison, inflight, acked, delivs, last, hist>>

(***************************************************************************)
(* The channel pool: getChannel step by step for concurrent callers, the   *)
(* connection's 'error' / 'close' events, connect() on a client that has   *)
(* channels already, disconnect(), and what publish and sendToQueue        *)
(* return.  The rpc and consume parts above take getChannel as one step.   *)
(***************************************************************************)
\* the concurrent callers of getChannel (publish, sendToQueue or consume calls)
Callers == {"g1", "g2"}
\* the channel names they ask for
PoolNames == {"publisher", "consumer:queue"}
\* the queues consume is called for, and the channel names of their consumers
Queues == {"queue", "other"}
ConsumerNames == {"consumer:queue", "consumer:other"}
ChanNames == PoolNames \cup ConsumerNames \cup {"init"}
\* the deliveries the broker has for one consumer
MaxHeld == 11
\* the channels created over the life of the client
MaxChannels == 3

\* a channel as createChannel returns it: no prefetch count yet
NewChannel(name) == [name |-> name, cur |-> TRUE, open |-> TRUE, qos |-> 0]

\* the channels of the connection in this.connection are closed with it
CloseCurrent(cs) ==
  IF cs = <<>> THEN <<>>
  ELSE [i \in 1..Len(cs) |-> IF cs[i].cur THEN [cs[i] EXCEPT !.open = FALSE] ELSE cs[i]]

\* this.connection is assigned a new connection: the channels made so far belong
\* to an earlier one
Superseded(cs) ==
  IF cs = <<>> THEN <<>>
  ELSE [i \in 1..Len(cs) |-> [cs[i] EXCEPT !.cur = FALSE]]

\* channel.close() on each of the given channels
CloseAll(cs, idx) ==
  IF cs = <<>> THEN <<>>
  ELSE [i \in 1..Len(cs) |-> IF i \in idx THEN [cs[i] EXCEPT !.open = FALSE] ELSE cs[i]]

NoReturn == [chan |-> 0, connected |-> FALSE, open |-> FALSE, cur |-> FALSE]

\* what a caller holds when getChannel returns channel i
Returned(i, cs) ==
  [chan |-> i, connected |-> connected, open |-> cs[i].open, cur |-> cs[i].cur]

\* connect(), lines 51-77, on the pool: line 54 replaces this.connection, the
\* channel map is left as it is, and getChannel('init') of line 99 takes the
\* cached 'init' channel if there is one
PoolFields(ok) ==
  /\ (ok /\ "init" \notin channels) => Len(chans) < MaxChannels
  /\ IF ok
       THEN /\ connOpen' = TRUE
            /\ IF "init" \in channels
                 THEN /\ chans' = Superseded(chans)
                      /\ UNCHANGED chanVal
                 ELSE /\ chans' = Append(Superseded(chans),
                                         [NewChannel("init") EXCEPT !.qos = Prefetch])
                      /\ chanVal' = [chanVal EXCEPT !["init"] = Len(chans) + 1]
       ELSE UNCHANGED <<connOpen, chans, chanVal>>
  /\ UNCHANGED <<gPc, gName, gNew, gRet, held, sent, disc>>

PoolConnect(ok) ==
  /\ ConnectFields(ok)
  /\ PoolFields(ok)
  /\ UNCHANGED <<rpcVars, msgVars, topoVars, helperVars>>

NoLoss ==
  [happened |-> FALSE, marked |-> FALSE, reopened |-> FALSE, created |-> 0,
   mapChanged |-> FALSE]

\* what an 'error' / 'close' handler has done when it returns: whether the pool
\* is marked disconnected, whether there is an open connection again, how many
\* channels were created and whether the channel map differs
Loss(cd, co, n, changed) ==
  [happened |-> TRUE, marked |-> ~cd, reopened |-> co, created |-> n,
   mapChanged |-> changed]

\* handlers that connect again: a new connection and a new 'init' channel
ConnLostReconnects ==
  /\ connection # "null"
  /\ connOpen
  /\ Len(chans) < MaxChannels
  /\ connected' = TRUE
  /\ connOpen' = TRUE
  /\ chans' = Append(Superseded(CloseCurrent(chans)),
                      [NewChannel("init") EXCEPT !.qos = Prefetch])
  /\ chanVal' = [chanVal EXCEPT !["init"] = Len(chans) + 1]
  /\ UNCHANGED <<connection, channels, rpcVars, msgVars, topoVars, retryVars, envVars,
                 scenVars, rpcWireVars, queueVars, gPc, gName, gNew, gRet, held, sent, disc>>
  /\ lost' = Loss(connected', connOpen', Len(chans') - Len(chans),
                  channels' # channels \/ chanVal' # chanVal)

\* the connection fails or is closed by the broker: the handlers of lines 59-67
\* set this.connected = false and nothing else
ConnLost ==
  /\ connection # "null"
  /\ connOpen
  /\ connected' = FALSE
  /\ connOpen' = FALSE
  /\ chans' = CloseCurrent(chans)
  /\ UNCHANGED <<connection, channels, rpcVars, msgVars, topoVars, retryVars, envVars,
                 scenVars, rpcWireVars, queueVars,
                 chanVal, gPc, gName, gNew, gRet, held, sent, disc>>
  /\ lost' = Loss(connected', connOpen', Len(chans') - Len(chans),
                  channels' # channels \/ chanVal' # chanVal)

\* getChannel(name), lines 159-167: the cached channel is returned; without a
\* connection the call throws; else createChannel is called and awaited
GetChannelBegin(g, name) ==
  /\ gPc[g] = "idle"
  /\ (name \notin channels /\ ~GetChannelThrows(name) /\ connOpen) => Len(chans) < MaxChannels
  /\ gName' = [gName EXCEPT ![g] = name]
  /\ IF name \in channels
       THEN /\ gRet' = [gRet EXCEPT ![g] = Returned(chanVal[name], chans)]
            /\ gPc' = [gPc EXCEPT ![g] = "returned"]
            /\ UNCHANGED <<chans, gNew>>
       ELSE IF GetChannelThrows(name) \/ ~connOpen
         THEN /\ gPc' = [gPc EXCEPT ![g] = "threw"]
              /\ UNCHANGED <<chans, gNew, gRet>>
         ELSE /\ chans' = Append(chans, NewChannel(name))
              /\ gNew' = [gNew EXCEPT ![g] = Len(chans) + 1]
              /\ gPc' = [gPc EXCEPT ![g] = "create"]
              /\ UNCHANGED gRet
  /\ UNCHANGED <<connVars, connOpen, chanVal, held, sent, disc>>

GetChannelStart(g, name) ==
  /\ GetChannelBegin(g, name)
  /\ UNCHANGED <<rpcVars, msgVars, topoVars, helperVars>>

\* a consume that takes one channel for all queues
ConsumerKeyShared(queue) == "consumer:queue"

\* line 237: the channel name `consumer:${queue}`
ConsumerKey(queue) == IF queue = "queue" THEN "consumer:queue" ELSE "consumer:other"

\* consume(queue, handler), lines 236-237: the call asks getChannel for the
\* channel of its queue
ConsumeStart(g, queue) ==
  /\ gQueue' = [gQueue EXCEPT ![g] = queue]
  /\ GetChannelBegin(g, ConsumerKey(queue))
  /\ UNCHANGED <<rpcVars, msgVars, topoVars, retryVars, envVars, scenVars, rpcWireVars, lossVars>>

\* channel.prefetch(10), line 170
SetPrefetch(c) == [c EXCEPT !.qos = Prefetch]

\* createChannel has returned, line 167; prefetch is called and awaited, line 170
GetChannelCreated(g) ==
  /\ gPc[g] = "create"
  /\ IF chans[gNew[g]].open
       THEN /\ chans' = [chans EXCEPT ![gNew[g]] = SetPrefetch(@)]
            /\ gPc' = [gPc EXCEPT ![g] = "prefetch"]
       ELSE /\ gPc' = [gPc EXCEPT ![g] = "threw"]
            /\ UNCHANGED chans
  /\ UNCHANGED <<connVars, rpcVars, msgVars, topoVars, helperVars, connOpen, chanVal, gName, gNew, gRet, held, sent, disc>>

\* prefetch has returned; the channel is stored and returned, lines 172-173
GetChannelCached(g) ==
  /\ gPc[g] = "prefetch"
  /\ IF chans[gNew[g]].open
       THEN /\ channels' = GetChannelMap(gName[g])
            /\ chanVal' = [chanVal EXCEPT ![gName[g]] = gNew[g]]
            /\ gRet' = [gRet EXCEPT ![g] = Returned(gNew[g], chans)]
            /\ gPc' = [gPc EXCEPT ![g] = "returned"]
       ELSE /\ gPc' = [gPc EXCEPT ![g] = "threw"]
            /\ UNCHANGED <<channels, chanVal, gRet>>
  /\ UNCHANGED <<connection, connected, rpcVars, msgVars, topoVars, helperVars, connOpen, chans, gName, gNew, held, sent, disc>>

\* consume(), line 240: channel.consume registers a consumer on the channel
\* getChannel returned; on a closed channel it throws and line 265 rethrows
AttachConsumer(g) ==
  /\ gPc[g] = "returned"
  /\ gName[g] \in ConsumerNames
  /\ gPc' = [gPc EXCEPT ![g] = IF chans[gRet[g].chan].open THEN "consuming" ELSE "threw"]
  /\ UNCHANGED <<connVars, rpcVars, msgVars, topoVars, helperVars, connOpen, chans, chanVal, gName, gNew, gRet, held, sent, disc>>

\* the count the broker applies to a consumer: prefetch(10) is basic.qos without
\* the global flag, which RabbitMQ applies to each consumer started on the
\* channel afterwards, not to the channel as a whole; 0 is no limit
ConsumerLimit(g) == chans[gRet[g].chan].qos

\* the broker delivers one more message to the consumer of g
DeliverTo(g) ==
  /\ gPc[g] = "consuming"
  /\ chans[gRet[g].chan].open
  /\ ConsumerLimit(g) = 0 \/ held[g] < ConsumerLimit(g)
  /\ held[g] < MaxHeld
  /\ held' = [held EXCEPT ![g] = @ + 1]
  /\ UNCHANGED <<connVars, rpcVars, msgVars, topoVars, helperVars, connOpen, chans, chanVal, gPc, gName, gNew, gRet, sent, disc>>

\* the callback acks or nacks one delivery, lines 252 and 258
SettleFrom(g) ==
  /\ gPc[g] = "consuming"
  /\ held[g] > 0
  /\ held' = [held EXCEPT ![g] = @ - 1]
  /\ UNCHANGED <<connVars, rpcVars, msgVars, topoVars, helperVars, connOpen, chans, chanVal, gPc, gName, gNew, gRet, sent, disc>>

\* the deliveries unsettled on channel i, over all its consumers
RECURSIVE SumHeld(_, _)
SumHeld(S, i) ==
  IF S = {} THEN 0
  ELSE LET g == CHOOSE x \in S : TRUE
       IN (IF gPc[g] = "consuming" /\ gRet[g].chan = i THEN held[g] ELSE 0)
            + SumHeld(S \ {g}, i)

Unsettled(i) == SumHeld(Callers, i)

NoSend == [api |-> "none", ret |-> "none", cause |-> "none"]

\* publish, lines 182-203, and sendToQueue, lines 212-232: the result of the
\* channel's write is returned; every error, from getChannel or from the write,
\* is caught and answered with false
SendOutcome(api, usable, full) ==
  IF ~usable THEN [api |-> api, ret |-> "false", cause |-> "unusable"]
  ELSE IF full THEN [api |-> api, ret |-> "false", cause |-> "backpressure"]
  ELSE [api |-> api, ret |-> "true", cause |-> "none"]

\* publish or sendToQueue after its getChannel('publisher'): full is the broker
\* pushing back on the channel's write buffer
Send(g, api, full) ==
  /\ gName[g] = "publisher"
  /\ gPc[g] \in {"returned", "threw"}
  /\ sent' = [sent EXCEPT ![g] =
       SendOutcome(api, gPc[g] = "returned" /\ chans[gRet[g].chan].open, full)]
  /\ gPc' = [gPc EXCEPT ![g] = "sent"]
  /\ UNCHANGED <<connVars, rpcVars, msgVars, topoVars, helperVars, connOpen, chans, chanVal, gName, gNew, gRet, held, disc>>

NoDisconnect ==
  [returned |-> FALSE, connOpen |-> FALSE, openChans |-> 0, mapSize |-> 0, connected |-> FALSE]

\* the pool as disconnect() leaves it
Left(co, cs, keys, cd) ==
  [returned |-> TRUE, connOpen |-> co,
   openChans |-> Cardinality({n \in keys : cs[chanVal[n]].open}),
   mapSize |-> Cardinality(keys), connected |-> cd]

\* disconnect(), lines 79-96: the connection is closed (its 'close' event runs
\* the handler of line 64), then each channel of the map, then the map is
\* cleared and connected is set to false; an error of any close is caught at
\* line 93 and ends the method there.  fail: which close reports an error
Disconnect(fail) ==
  /\ fail = "connection" => connection # "null"
  /\ fail = "channel" => channels # {}
  /\ UNCHANGED connection
  /\ IF fail = "connection"
       THEN /\ UNCHANGED <<connected, channels, connOpen, chans, chanVal>>
            /\ disc' = Left(connOpen, chans, channels, connected)
       ELSE LET wasOpen == connection # "null" /\ connOpen
                cs == IF connection # "null" THEN CloseCurrent(chans) ELSE chans
            IN /\ connOpen' = FALSE
               /\ IF fail = "channel"
                    THEN /\ chans' = cs
                         /\ connected' = IF wasOpen THEN FALSE ELSE connected
                         /\ UNCHANGED <<channels, chanVal>>
                         /\ disc' = Left(FALSE, cs, channels, connected')
                    ELSE /\ chans' = CloseAll(cs, {chanVal[n] : n \in channels})
                         /\ channels' = {}
                         /\ chanVal' = [n \in ChanNames |-> 0]
                         /\ connected' = FALSE
                         /\ disc' = Left(FALSE, chans', {}, FALSE)
  /\ UNCHANGED <<rpcVars, msgVars, topoVars, helperVars, gPc, gName, gNew, gRet, held, sent>>

(***************************************************************************)
(* The topology: connect() declares the exchanges and the queues on the    *)
(* 'init' channel, one awaited call after the other.  The broker keeps     *)
(* what is declared; other clients may have declared an entity first.      *)
(***************************************************************************)
\* connect() calls that get a connection
MaxConnects == 2
\* entities another client has declared with other arguments
MaxForeign == 1

\* the arguments of a declaration: x-dead-letter-exchange ("": not given),
\* x-message-ttl in ms and x-max-priority (0: not given)
Args(dlx, ttl, priority) == [dlx |-> dlx, ttl |-> ttl, priority |-> priority]
NoArgs == Args("", 0, 0)
\* arguments another client declared an entity with
ForeignArgs == Args("other-dlx", 1000, 0)

Exchange(name, type, args) ==
  [kind |-> "exchange", name |-> name, type |-> type, args |-> args, key |-> ""]
Queue(name, args) ==
  [kind |-> "queue", name |-> name, type |-> "", args |-> args, key |-> ""]
Binding(queue, exchange, key) ==
  [kind |-> "binding", name |-> queue, type |-> exchange, args |-> NoArgs, key |-> key]

\* arguments of lines 112-114
ExchangeArgs == Args("", 86400000, 0)

\* queues declared without a dead-letter exchange
QueueArgsNoDeadLetter == Args("", 86400000, 10)

\* arguments of lines 143-147
QueueArgs == Args("dead-letter", 86400000, 10)

\* the calls of initializeExchanges and initializeQueues, in their order
Descriptor ==
  << Exchange("payment.events", "topic", ExchangeArgs),
     Exchange("loyalty.events", "topic", ExchangeArgs),
     Exchange("tip.events", "topic", ExchangeArgs),
     Exchange("system.events", "fanout", ExchangeArgs),
     Exchange("compliance.events", "direct", ExchangeArgs),
     Queue("payment.processing", QueueArgs),
     Queue("payment.confirmed", QueueArgs),
     Queue("payment.failed", QueueArgs),
     Queue("loyalty.points.earned", QueueArgs),
     Queue("loyalty.points.redeemed", QueueArgs),
     Queue("tip.processing", QueueArgs),
     Queue("tip.settled", QueueArgs),
     Queue("webhook.notification", QueueArgs),
     Queue("compliance.check", QueueArgs),
     Queue("analytics.event", QueueArgs),
     Queue("notification.email", QueueArgs),
     Queue("notification.sms", QueueArgs),
     Exchange("dead-letter", "fanout", NoArgs),
     Queue("dead-letter-queue", NoArgs),
     Binding("dead-letter-queue", "dead-letter", "") >>

\* the broker has the entity of this kind and name
Existing(item, b) == {e \in b : e.kind = item.kind /\ e.name = item.name}

\* a declaration that the broker refuses whenever the entity exists
ConflictsIfExists(item, b) == Existing(item, b) # {}

\* assertExchange / assertQueue of an entity that exists with another type or
\* other arguments: the broker answers PRECONDITION_FAILED and closes the channel
Conflicts(item, b) ==
  /\ item.kind # "binding"
  /\ \E e \in Existing(item, b) : e # item

\* a declaration that also binds every queue to payment.events under its name
DeclaredAndBound(item, b) ==
  b \cup {item} \cup
    (IF item.kind = "queue" /\ item.args.dlx # ""
       THEN {Binding(item.name, "payment.events", item.name)} ELSE {})

\* what a successful assertExchange, assertQueue or bindQueue leaves on the broker
Declared(item, b) == b \cup {item}

\* another client declares an entity of the descriptor first, with arguments
\* of its own
Foreign(i) ==
  /\ Descriptor[i].kind # "binding"
  /\ Existing(Descriptor[i], broker) = {}
  /\ Cardinality({e \in broker : e.args = ForeignArgs}) < MaxForeign
  /\ broker' = broker \cup {[Descriptor[i] EXCEPT !.args = ForeignArgs]}
  /\ UNCHANGED <<connVars, rpcVars, msgVars, helperVars, poolVars,
                 declPc, runs, done, before, asserts, failedAt, connectResult>>

\* connect(), lines 51-69: with the connection the declaration starts; an error
\* of amqplib.connect is caught at line 73 and thrown on
TopoConnect(ok) ==
  /\ declPc = 0
  /\ runs < MaxConnects
  /\ ConnectFields(ok)
  /\ PoolFields(ok)
  /\ IF ok
       THEN /\ declPc' = 1
            /\ runs' = runs + 1
            /\ before' = broker
            /\ connectResult' = Pending
       ELSE /\ connectResult' = Rejected("connect")
            /\ UNCHANGED <<declPc, runs, before>>
  /\ asserts' = 0
  /\ failedAt' = 0
  /\ UNCHANGED <<rpcVars, msgVars, helperVars, broker, done>>

\* a connect() that answers an error of the declaration by resolving
ConnectCatchSwallow(e) == Resolved(0)

\* lines 73-76: the error is logged and thrown on
ConnectCatch(e) == Rejected(e)

\* one awaited call of lines 110-116, 140-148 or 151-153 on the 'init' channel
Declare ==
  /\ declPc # 0
  /\ LET item == Descriptor[declPc]
         init == chanVal["init"]
     IN /\ asserts' = asserts + 1
        /\ IF ~chans[init].open
             THEN /\ connectResult' = ConnectCatch("channel")
                  /\ declPc' = 0
                  /\ UNCHANGED <<broker, chans, failedAt, done>>
             ELSE IF Conflicts(item, broker)
               THEN /\ connectResult' = ConnectCatch("topology")
                    /\ failedAt' = declPc
                    /\ declPc' = 0
                    /\ chans' = [chans EXCEPT ![init].open = FALSE]
                    /\ UNCHANGED <<broker, done>>
               ELSE /\ broker' = Declared(item, broker)
                    /\ IF declPc = Len(Descriptor)
                         THEN /\ declPc' = 0
                              /\ connectResult' = Resolved(0)
                              /\ done' = done + 1
                         ELSE /\ declPc' = declPc + 1
                              /\ UNCHANGED <<connectResult, done>>
                    /\ UNCHANGED <<chans, failedAt>>
  /\ UNCHANGED <<connVars, rpcVars, msgVars, helperVars, connOpen, chanVal, gPc, gName, gNew, gRet,
                 held, sent, disc, runs, before>>

(***************************************************************************)
(* messageHelpers.publishWithRetry(publishFunction, maxRetries, delayMs)   *)
(***************************************************************************)
\* the largest maxRetries a caller passes
MaxAttempts == 5
\* the delayMs values a caller passes
Delays == {1, 1000}
\* what an invocation of publishFunction does: it resolves to true or to false,
\* or it rejects
OpOutcomes == {"true", "false", "throw"}

NoResult == [kind |-> "none", val |-> FALSE, err |-> 0]
\* the call returned v
RetryReturned(v) == [kind |-> "returned", val |-> v, err |-> 0]
\* the call threw the error of attempt n
RetryThrew(n) == [kind |-> "threw", val |-> FALSE, err |-> n]

\* a loop that runs once more than maxRetries
LoopRunsOnceMore(idx, max) == idx <= max

\* line 432: for (let i = 0; i < maxRetries; i++)
LoopRuns(idx, max) == idx < max

\* a helper that goes on after a true result
ReturnsNever(result) == FALSE

\* line 435: if (result) return true
ReturnsEarly(result) == result = "true"

\* line 437: if (i < maxRetries - 1)
WaitsAfterFalse(idx, max) == idx + 1 < max

\* a delay that grows by delayMs per attempt
BackoffLinear(base, idx) == base * (idx + 1)

\* line 438: delayMs * Math.pow(2, i)
Backoff(base, idx) == base * 2^idx

\* a catch that throws every error on
RethrowsAll(idx, max) == TRUE

\* line 442: if (i === maxRetries - 1) throw error
Rethrows(idx, max) == idx + 1 = max

\* the call of publishWithRetry
RetryStart(max, base) ==
  /\ retryPc = "idle"
  /\ retryPc' = "loop"
  /\ maxRetries' = max
  /\ delayMs' = base
  /\ retryI' = 0
  /\ UNCHANGED <<connVars, rpcVars, msgVars, poolVars, topoVars, envVars, scenVars, opResults, waits, retryResult, rpcWireVars, queueVars, lossVars>>

\* one pass of the loop body, lines 433-443: publishFunction is invoked and
\* awaited; after true the call returns; after false it waits unless this was
\* the last pass; after an error the catch throws it on in the last pass and
\* otherwise lets the loop go on
Attempt(outcome) ==
  /\ retryPc = "loop"
  /\ LoopRuns(retryI, maxRetries)
  /\ opResults' = Append(opResults, outcome)
  /\ IF outcome = "throw"
       THEN IF Rethrows(retryI, maxRetries)
              THEN /\ retryPc' = "threw"
                   /\ retryResult' = RetryThrew(retryI + 1)
                   /\ UNCHANGED <<retryI, waits>>
              ELSE /\ retryI' = retryI + 1
                   /\ waits' = Append(waits, 0)
                   /\ UNCHANGED <<retryPc, retryResult>>
       ELSE IF ReturnsEarly(outcome)
              THEN /\ retryPc' = "returned"
                   /\ retryResult' = RetryReturned(TRUE)
                   /\ UNCHANGED <<retryI, waits>>
              ELSE IF WaitsAfterFalse(retryI, maxRetries)
                     THEN /\ retryPc' = "wait"
                          /\ UNCHANGED <<retryI, waits, retryResult>>
                     ELSE /\ retryI' = retryI + 1
                          /\ waits' = Append(waits, 0)
                          /\ UNCHANGED <<retryPc, retryResult>>
  /\ UNCHANGED <<connVars, rpcVars, msgVars, poolVars, topoVars, envVars, scenVars, maxRetries, delayMs, rpcWireVars, queueVars, lossVars>>

\* the timer of line 438 has run out: the loop goes on
BackoffElapsed ==
  /\ retryPc = "wait"
  /\ waits' = Append(waits, Backoff(delayMs, retryI))
  /\ retryI' = retryI + 1
  /\ retryPc' = "loop"
  /\ UNCHANGED <<connVars, rpcVars, msgVars, poolVars, topoVars, envVars, scenVars, maxRetries, delayMs,
                 opResults, retryResult, rpcWireVars, queueVars, lossVars>>

\* the loop is left, line 445: return false
RetryExhausted ==
  /\ retryPc = "loop"
  /\ ~LoopRuns(retryI, maxRetries)
  /\ retryPc' = "returned"
  /\ retryResult' = RetryReturned(FALSE)
  /\ UNCHANGED <<connVars, rpcVars, msgVars, poolVars, topoVars, envVars, scenVars, maxRetries, delayMs,
                 retryI, opResults, waits, rpcWireVars, queueVars, lossVars>>

\* crypto.randomUUID() and Date.now()
Uuids == {"u1", "u2"}
Clock == {1700, 1701}

\* what callers pass: type strings, ids of envelopes they build themselves,
\* payloads, metadata and options
TypeStrings == {"", "payment.confirmed", "order.created"}
CallerIds == {"", "p1"}
Payloads ==
  { Undefined, Str("paid"), Obj([amount |-> Num(10)]),
    Obj([amount |-> Num(10), note |-> Undefined]),
    Obj([order |-> Obj([amount |-> Num(10), currency |-> Str("TON")])]) }
Metadatas ==
  { Undefined, Obj([priority |-> Num(5)]),
    Obj([correlationId |-> Str("c1"), replyTo |-> Str("q1"),
         priority |-> Num(5), ttl |-> Num(60)]) }
OptionValues ==
  { Undefined, Obj([priority |-> Num(5)]), Obj([persistent |-> Bool(FALSE)]),
    Obj([messageId |-> Str("x")]),
    Obj([correlationId |-> Str("c1"), replyTo |-> Str("q1")]) }

\* the business publishers: the type each stamps and the method it hands the
\* envelope to
BusinessPublishers ==
  { [name |-> "publishPaymentConfirmed", type |-> "payment.confirmed", api |-> "publish"],
    [name |-> "publishLoyaltyPointsEarned", type |-> "loyalty.points.earned", api |-> "publish"],
    [name |-> "publishTipSettled", type |-> "tip.settled", api |-> "publish"],
    [name |-> "publishWebhookNotification", type |-> "webhook.notification", api |-> "sendToQueue"],
    [name |-> "publishComplianceCheck", type |-> "compliance.check", api |-> "sendToQueue"],
    [name |-> "publishEmailNotification", type |-> "notification.email", api |-> "sendToQueue"],
    [name |-> "publishSmsNotification", type |-> "notification.sms", api |-> "sendToQueue"] }

\* nothing handed to the broker yet
NotHanded == [api |-> "none", by |-> "none", props |-> Undefined, body |-> NoText]

\* publish (lines 177-204) and sendToQueue (lines 207-233) with a channel:
\* the options and the body that channel.publish / channel.sendToQueue get
Handed(api, by, message, options) ==
  [api |-> api, by |-> by, props |-> MessageOptions(message, options),
   body |-> Stringify(message)]

\* messageHelpers.createMessage(type, data, metadata), lines 418-424
CreateMessage(type, data, metadata, id, now) ==
  /\ env = Undefined
  /\ env' = Obj([id |-> Str(id), type |-> Str(type), timestamp |-> Num(now),
                 data |-> data, metadata |-> metadata])
  /\ made' = "createMessage"
  /\ UNCHANGED <<connVars, rpcVars, msgVars, poolVars, topoVars, retryVars, scenVars, handed, parsed, rpcWireVars, queueVars, lossVars>>

\* a caller builds a QueueMessage itself
CallerMessage(id, type, data, now) ==
  /\ env = Undefined
  /\ env' = Obj([id |-> Str(id), type |-> Str(type), timestamp |-> Num(now),
                 data |-> data])
  /\ made' = "caller"
  /\ UNCHANGED <<connVars, rpcVars, msgVars, poolVars, topoVars, retryVars, scenVars, handed, parsed, rpcWireVars, queueVars, lossVars>>

\* publish(exchange, routingKey, message, options) or
\* sendToQueue(queue, message, options) with the envelope at hand; without a
\* channel (getChannel throws) nothing is handed over and the call returns false
HandOver(api, options, channel) ==
  /\ env # Undefined
  /\ handed = NotHanded
  /\ handed' = IF channel THEN Handed(api, "caller", env, options)
                          ELSE [NotHanded EXCEPT !.api = "failed"]
  /\ UNCHANGED <<connVars, rpcVars, msgVars, poolVars, topoVars, retryVars, scenVars, env, made, parsed, rpcWireVars, queueVars, lossVars>>

\* a business publisher, lines 311-398: it builds the envelope and hands it to
\* publish or sendToQueue without options
BusinessPublish(p, data, id, now, channel) ==
  /\ env = Undefined
  /\ env' = Obj([id |-> Str(id), type |-> Str(p.type), timestamp |-> Num(now),
                 data |-> data])
  /\ made' = p.name
  /\ handed' = IF channel THEN Handed(p.api, p.name, env', Undefined)
                          ELSE [NotHanded EXCEPT !.api = "failed"]
  /\ UNCHANGED <<connVars, rpcVars, msgVars, poolVars, topoVars, retryVars, scenVars, parsed, rpcWireVars, queueVars, lossVars>>

\* the consumer's callback parses the body it was delivered, line 244
ParseBody ==
  /\ handed.api \in {"publish", "sendToQueue"}
  /\ parsed = Undefined
  /\ parsed' = Parse(handed.body)
  /\ UNCHANGED <<connVars, rpcVars, msgVars, poolVars, topoVars, retryVars, scenVars, env, made, handed, rpcWireVars, queueVars, lossVars>>


(***************************************************************************)
(* An envelope published to the exchange payment.events with the routing   *)
(* key payment.confirmed, and the queue the consumer reads.                *)
(***************************************************************************)
RoutingKey == "payment.confirmed"
BindingKeys == {"payment.confirmed", "payment.failed"}

\* payment.events is a topic exchange (line 102): a binding key without
\* wildcards matches the routing key that equals it
Matches(key, routingKey) == key = routingKey

\* line 191: the exchange copies the message to the queue when one of the queue's
\* bindings matches
Routed(routingKey) == \E key \in bindings : Matches(key, routingKey)

\* the queue is bound to payment.events with a binding key (the code declares
\* exchanges and queues; the bindings of the business queues are made outside it)
Bind(key) ==
  /\ key \notin bindings
  /\ bindings' = bindings \cup {key}
  /\ UNCHANGED <<connVars, rpcVars, msgVars, poolVars, topoVars, retryVars, envVars,
                 pub, wire, got, rpcWireVars, queueVars, lossVars>>

\* publish(EXCHANGES.PAYMENT_EVENTS, 'payment.confirmed', message), lines 177-204:
\* without a channel nothing is published; with one the body is written and the
\* broker routes it; p says that the handler fails on this message
PublishEvent(m, message, p) ==
  /\ content[m] = ""
  /\ IF GetChannelThrows("publisher")
       THEN UNCHANGED <<channels, content, poison, ready, pub, wire>>
       ELSE /\ channels' = GetChannelMap("publisher")
            /\ pub' = [pub EXCEPT ![m] = message]
            /\ wire' = [wire EXCEPT ![m] = Stringify(message)]
            /\ content' = [content EXCEPT ![m] = "{envelope}"]
            /\ poison' = [poison EXCEPT ![m] = p]
            /\ ready' = IF Routed(RoutingKey) THEN Append(ready, m) ELSE ready
  /\ UNCHANGED <<connection, connected, rpcVars, poolVars, topoVars, retryVars, envVars,
                 subscribed, inflight, acked, dlq, delivs, last, hist, bindings, got, rpcWireVars, queueVars, lossVars>>

\* publishPaymentConfirmed(paymentData), lines 311-324
PublishPaymentConfirmed(m, data, id, now, p) ==
  PublishEvent(m, Obj([id |-> Str(id), type |-> Str("payment.confirmed"),
                       timestamp |-> Num(now), data |-> data]), p)

\* publish called with an envelope the caller built
PublishCallerEnvelope(m, data, id, now, p) ==
  PublishEvent(m, Obj([id |-> Str(id), type |-> Str("payment.confirmed"),
                       timestamp |-> Num(now), data |-> data]), p)

\* the broker sends message m, at the head of the queue, to the consumer
DeliverMsg(m) == ready # <<>> /\ Head(ready) = m /\ Deliver

Init ==
  /\ connection = "null"
  /\ connected = FALSE
  /\ channels = {}
  /\ rpcPc = [c \in Calls |-> "idle"]
  /\ reqId = [c \in Calls |-> "a"]
  /\ tempQueue = [c \in Calls |-> FALSE]
  /\ consumer = [c \in Calls |-> FALSE]
  /\ replies = [c \in Calls |-> <<>>]
  /\ timer = [c \in Calls |-> "none"]
  /\ promise = [c \in Calls |-> Pending]
  /\ request = [c \in Calls |-> "none"]
  /\ thrown = [c \in Calls |-> FALSE]
  /\ subscribed = FALSE
  /\ content = [m \in Msgs |-> ""]
  /\ poison = [m \in Msgs |-> FALSE]
  /\ ready = <<>>
  /\ inflight = {}
  /\ acked = {}
  /\ dlq = {}
  /\ delivs = [m \in Msgs |-> 0]
  /\ last = [m \in Msgs |-> NoDelivery]
  /\ hist = [m \in Msgs |-> <<>>]
  /\ connOpen = FALSE
  /\ chans = <<>>
  /\ chanVal = [n \in ChanNames |-> 0]
  /\ gPc = [g \in Callers |-> "idle"]
  /\ gName = [g \in Callers |-> "publisher"]
  /\ gNew = [g \in Callers |-> 0]
  /\ gRet = [g \in Callers |-> NoReturn]
  /\ held = [g \in Callers |-> 0]
  /\ sent = [g \in Callers |-> NoSend]
  /\ disc = NoDisconnect
  /\ broker = {}
  /\ declPc = 0
  /\ runs = 0
  /\ done = 0
  /\ before = {}
  /\ asserts = 0
  /\ failedAt = 0
  /\ connectResult = Pending
  /\ retryPc = "idle"
  /\ maxRetries = 0
  /\ delayMs = 0
  /\ retryI = 0
  /\ opResults = <<>>
  /\ waits = <<>>
  /\ retryResult = NoResult
  /\ env = Undefined
  /\ made = "none"
  /\ handed = NotHanded
  /\ parsed = Undefined
  /\ bindings = {}
  /\ pub = [m \in Msgs |-> Undefined]
  /\ wire = [m \in Msgs |-> NoText]
  /\ got = [m \in Msgs |-> Undefined]
  /\ replyQ = [c \in Calls |-> NoQueue]
  /\ reqProps = [c \in Calls |-> Undefined]
  /\ gQueue = [g \in Callers |-> ""]
  /\ lost = NoLoss

NextRpc ==
  \/ \E ok \in BOOLEAN : Connect(ok)
  \/ \E c \in Calls, id \in Ids : RpcCall(c, id)
  \/ \E c \in Calls : RpcGetChannel(c)
  \/ \E c \in Calls : RpcAssertQueue(c)
  \/ \E c \in Calls : RpcConsume(c)
  \/ \E c \in Calls, accepted \in BOOLEAN : RpcSend(c, accepted)
  \/ \E c \in Calls : TimerFire(c)
  \/ \E c \in Calls, corr \in Ids, b \in Bodies : ReplyArrives(c, corr, b)
  \/ \E c \in Calls : DeliverReply(c)

SpecRpc == Init /\ [][NextRpc]_vars

NextConsume ==
  \/ \E ok \in BOOLEAN : Connect(ok)
  \/ Consume
  \/ \E m \in Msgs, b \in MsgBodies, p \in BOOLEAN : Publish(m, b, p)
  \/ Deliver
  \/ \E m \in Msgs : Callback(m)
  \/ \E m \in Msgs, ok \in BOOLEAN : HandlerReturns(m, ok)
  \/ Expire

SpecConsume == Init /\ [][NextConsume]_vars

\* the broker keeps delivering to a subscribed consumer, the event loop runs the
\* callback of every delivery, and a handler finishes
FairSpecConsume ==
  /\ SpecConsume
  /\ WF_vars(Deliver)
  /\ \A m \in Msgs : WF_vars(Callback(m))
  /\ \A m \in Msgs : WF_vars(\E ok \in BOOLEAN : HandlerReturns(m, ok))

\* the event loop runs every continuation and every timer that is due, and the
\* broker answers every request and delivers to an active subscription
FairSpecRpc ==
  /\ SpecRpc
  /\ \A c \in Calls :
       /\ WF_vars(RpcGetChannel(c))
       /\ WF_vars(RpcAssertQueue(c))
       /\ WF_vars(RpcConsume(c))
       /\ WF_vars(\E accepted \in BOOLEAN : RpcSend(c, accepted))
       /\ WF_vars(TimerFire(c))
       /\ WF_vars(DeliverReply(c))

\* the channels of a client whose connection stays up: concurrent getChannel
\* calls, the consumers attached to the channels and their deliveries
NextChannels ==
  \/ \E ok \in BOOLEAN : PoolConnect(ok)
  \/ \E g \in Callers, name \in PoolNames : GetChannelStart(g, name)
  \/ \E g \in Callers : GetChannelCreated(g)
  \/ \E g \in Callers : GetChannelCached(g)
  \/ \E g \in Callers : AttachConsumer(g)
  \/ \E g \in Callers : DeliverTo(g)
  \/ \E g \in Callers : SettleFrom(g)

SpecChannels == Init /\ [][NextChannels]_vars

\* consumers of two queues on one connection
NextQueues ==
  \/ \E ok \in BOOLEAN : PoolConnect(ok)
  \/ \E g \in Callers, queue \in Queues : ConsumeStart(g, queue)
  \/ \E g \in Callers : GetChannelCreated(g)
  \/ \E g \in Callers : GetChannelCached(g)
  \/ \E g \in Callers : AttachConsumer(g)
  \/ \E g \in Callers : DeliverTo(g)
  \/ \E g \in Callers : SettleFrom(g)

SpecQueues == Init /\ [][NextQueues]_vars

\* the pool over the life of the connection
NextPool ==
  \/ \E ok \in BOOLEAN : PoolConnect(ok)
  \/ ConnLost
  \/ \E g \in Callers, name \in PoolNames : GetChannelStart(g, name)
  \/ \E g \in Callers : GetChannelCreated(g)
  \/ \E g \in Callers : GetChannelCached(g)
  \/ \E g \in Callers, api \in {"publish", "sendToQueue"}, full \in BOOLEAN : Send(g, api, full)
  \/ \E fail \in {"none", "connection", "channel"} : Disconnect(fail)

SpecPool == Init /\ [][NextPool]_vars

\* connections that are lost, connect() calls and getChannel calls
NextLoss ==
  \/ \E ok \in BOOLEAN : PoolConnect(ok)
  \/ ConnLost
  \/ \E g \in Callers, name \in PoolNames : GetChannelStart(g, name)
  \/ \E g \in Callers : GetChannelCreated(g)
  \/ \E g \in Callers : GetChannelCached(g)

SpecLoss == Init /\ [][NextLoss]_vars

\* connect() and the broker's topology, on a connection that stays up
NextTopology ==
  \/ \E ok \in BOOLEAN : TopoConnect(ok)
  \/ Declare
  \/ \E i \in 1..Len(Descriptor) : Foreign(i)

SpecTopology == Init /\ [][NextTopology]_vars

\* a call of publishWithRetry with any publishFunction
NextRetry ==
  \/ \E max \in 0..MaxAttempts, base \in Delays : RetryStart(max, base)
  \/ \E outcome \in OpOutcomes : Attempt(outcome)
  \/ BackoffElapsed
  \/ RetryExhausted

SpecRetry == Init /\ [][NextRetry]_vars

\* publishFunction settles and the timer of line 438 runs out
FairSpecRetry ==
  /\ SpecRetry
  /\ WF_vars(\E outcome \in OpOutcomes : Attempt(outcome))
  /\ WF_vars(BackoffElapsed)
  /\ WF_vars(RetryExhausted)

\* the whole client; the properties below are checked on its parts, which share
\* only the connection and the channel map
\* envelopes are built, handed to the broker and parsed by a consumer
NextEnvelope ==
  \/ \E type \in TypeStrings, data \in Payloads, metadata \in Metadatas,
        id \in Uuids, now \in Clock : CreateMessage(type, data, metadata, id, now)
  \/ \E id \in CallerIds, type \in TypeStrings, data \in Payloads, now \in Clock :
        CallerMessage(id, type, data, now)
  \/ \E api \in {"publish", "sendToQueue"}, options \in OptionValues,
        channel \in BOOLEAN : HandOver(api, options, channel)
  \/ \E p \in BusinessPublishers, data \in Payloads, id \in Uuids, now \in Clock,
        channel \in BOOLEAN : BusinessPublish(p, data, id, now, channel)
  \/ ParseBody

SpecEnvelope == Init /\ [][NextEnvelope]_vars

EventPayloads == {Obj([amount |-> Num(10)])}

\* the scenario: the queue is bound, a consumer reads it, envelopes are
\* published to payment.events
NextScenario ==
  \/ \E ok \in BOOLEAN : Connect(ok)
  \/ Consume
  \/ \E key \in BindingKeys : Bind(key)
  \/ \E m \in Msgs, data \in EventPayloads, id \in Uuids, p \in BOOLEAN :
        PublishPaymentConfirmed(m, data, id, 1700, p)
  \/ \E m \in Msgs, data \in EventPayloads, p \in BOOLEAN :
        PublishCallerEnvelope(m, data, "p1", 1700, p)
  \/ Deliver
  \/ \E m \in Msgs : Callback(m)
  \/ \E m \in Msgs, ok \in BOOLEAN : HandlerReturns(m, ok)
  \/ Expire

SpecScenario == Init /\ [][NextScenario]_vars

\* the broker pushes every message that reaches the head of the queue to a
\* consumer whose prefetch window has room, the event loop runs the callback
\* of every delivery, and a handler finishes
FairSpecScenario ==
  /\ SpecScenario
  /\ \A m \in Msgs : SF_vars(DeliverMsg(m))
  /\ \A m \in Msgs : WF_vars(Callback(m))
  /\ \A m \in Msgs : WF_vars(\E ok \in BOOLEAN : HandlerReturns(m, ok))

Next ==
  NextRpc \/ NextConsume \/ NextChannels \/ NextPool \/ NextTopology \/ NextRetry
    \/ NextEnvelope \/ NextScenario \/ NextQueues \/ NextLoss

Spec == Init /\ [][Next]_vars


(***************************************************************************)
(* Properties of rpc.                                                      *)
(***************************************************************************)
Delivered(c) == {i \in 1..Len(replies[c]) : replies[c][i].st # "ready"}

Matching(c) == {i \in Delivered(c) : replies[c][i].corr = reqId[c]}

Timeout == Rejected("RPC timeout")

\* C1: a delivery on the reply queue settles the call only if its correlationId
\* equals request.id, and every delivery with another correlationId is acked and
\* settles nothing, so no such delivery stays unacknowledged.
C1_NonMatchingAcked ==
  \A c \in Calls : \A i \in Delivered(c) :
    /\ replies[c][i].won => replies[c][i].corr = reqId[c]
    /\ replies[c][i].corr # reqId[c] => replies[c][i].st = "acked" /\ ~replies[c][i].won

\* C2: a call has at most one outcome: once its promise is resolved or rejected,
\* no later reply, duplicate or timer changes it.
C2_OneOutcome ==
  [][\A c \in Calls : promise[c].state # "pending" => promise'[c] = promise[c]]_vars

\* a call resolved by a reply, whose duplicate was delivered and whose timer fired
\* after that
C2_Witness ==
  \E c \in Calls :
    /\ promise[c].state = "resolved"
    /\ timer[c] = "fired"
    /\ \E i \in Matching(c) : replies[c][i].promAt = "resolved"

\* C3: when a call settles the loser is released: a call resolved by a reply has
\* no timer that is armed or fires, and a call rejected by the deadline has no
\* subscription left on its reply queue.
C3_LoserReleased ==
  \A c \in Calls :
    /\ promise[c].state = "resolved" => timer[c] \notin {"armed", "fired"}
    /\ promise[c] = Timeout => ~consumer[c]

\* a delivery to call c happens in this step
DeliveryStep(c) ==
  /\ HasReady(replies[c])
  /\ Len(replies'[c]) = Len(replies[c])
  /\ replies'[c] # replies[c]

C5_ReplyResolves ==
  \A c \in Calls : \A i \in Matching(c) :
    (/\ replies[c][i].promAt = "pending"
     /\ replies[c][i].timerAt # "fired"
     /\ JsonParse(replies[c][i].body).ok)
    => /\ promise[c] = Resolved(JsonParse(replies[c][i].body).val)
       /\ replies[c][i].st = "acked"

\* the reply {v:2} resolved a call whose timer was running
C5_Witness ==
  \E c \in Calls : \E i \in Matching(c) :
    /\ replies[c][i].promAt = "pending"
    /\ replies[c][i].timerAt = "armed"
    /\ replies[c][i].body = "{v:2}"
    /\ promise[c] = Resolved(2)

\* C6 as stated: a call that ended without any delivery carrying its correlation id
\* was rejected with the timeout error.
C6_RejectsWithTimeout ==
  \A c \in Calls :
    (promise[c].state # "pending" /\ Matching(c) = {}) => promise[c] = Timeout

\* C6, amended: every call settles; a call whose setup succeeded and that gets no
\* delivery with its correlation id is rejected with the timeout error, and a call
\* whose setup threw is rejected with that error.
C6_EverySetUpCallTimesOut ==
  /\ \A c \in Calls : (rpcPc[c] # "idle") ~> (promise[c].state # "pending")
  /\ \A c \in Calls : (rpcPc[c] = "done") ~> (Matching(c) # {} \/ promise[c] = Timeout)
  /\ [](\A c \in Calls :
          (promise[c].state # "pending" /\ Matching(c) = {}) =>
             IF rpcPc[c] = "failed"
               THEN promise[c] = Rejected("RabbitMQ not connected")
               ELSE promise[c] = Timeout)

\* a call with an accepted request, a fired timer and no reply of its own
C6_Witness ==
  \E c \in Calls :
    /\ request[c] = "sent"
    /\ timer[c] = "fired"
    /\ Matching(c) = {}
    /\ Delivered(c) # {}
    /\ promise[c] = Timeout

(***************************************************************************)
(* Properties of consume.                                                  *)
(***************************************************************************)
InQueue(m) == \E i \in 1..Len(ready) : ready[i] = m

\* C7: a delivery that parses and whose handler completes without error is acked
\* once and not nacked; the ack removes the message from the queue.
C7_AckOnSuccess ==
  \A m \in Msgs :
    last[m].handler = "ok" =>
      /\ last[m].acks = 1
      /\ last[m].nacks = 0
      /\ m \in acked
      /\ ~InQueue(m) /\ m \notin inflight /\ m \notin dlq

\* a handler that succeeded on a redelivery
C7_Witness ==
  \E m \in Msgs : last[m].handler = "ok" /\ delivs[m] = 2 /\ m \in acked

\* C8: when the handler of a delivery throws or rejects, the delivery is nacked
\* with requeue=true and not acked, and the message is back at the queue.
C8_NackRequeueOnFailure ==
  [][\A m \in Msgs :
       (m \in inflight /\ m \notin inflight' /\ last'[m].handler = "fail")
       => /\ last'[m].nacks = 1
          /\ last'[m].requeue
          /\ last'[m].acks = 0
          /\ m \notin acked'
          /\ ready' = <<m>> \o ready]_vars

\* a message whose handler failed, that came back and failed again
C8_Witness ==
  \E m \in Msgs : last[m].handler = "fail" /\ delivs[m] >= 2 /\ InQueue(m)

\* C9: a delivery whose body does not parse is nacked with requeue=false: it is in
\* the dead-letter queue, was delivered once and never reached the handler.
C9_ParseFailureDeadLettered ==
  \A m \in Msgs :
    (last[m].phase = "done" /\ ~last[m].parsed) =>
      /\ last[m].nacks = 1
      /\ ~last[m].requeue
      /\ last[m].handler = "none"
      /\ delivs[m] = 1
      /\ m \in dlq

\* C10: a message whose handler fails on every delivery leaves the queue after
\* finitely many deliveries.
C10_PoisonStops ==
  \A m \in Msgs :
    (poison[m] /\ delivs[m] > 0) ~> (~InQueue(m) /\ m \notin inflight)

\* C12: a handler failure does not end the subscription nor reach the caller of
\* consume(): after any failure the subscription is active and the broker goes on
\* delivering what is in the queue.
C12_FailureContained ==
  (\E m \in Msgs : \E i \in 1..Len(hist[m]) : hist[m][i].handler = "fail")
    => /\ subscribed
       /\ (ready # <<>> /\ Cardinality(inflight) < Prefetch) => ENABLED Deliver

\* after two failed deliveries of one message the handler has the other message
C12_Witness ==
  \E m \in Msgs : \E n \in Msgs \ {m} :
    /\ Len(hist[m]) >= 2
    /\ hist[m][1].handler = "fail" /\ hist[m][2].handler = "fail"
    /\ hist[n] = <<>>
    /\ last[n].phase = "handler"

\* C13: a message whose handler fails on the first delivery and succeeds on the
\* second is delivered twice in all, nacked with requeue once, acked once and is
\* gone from the queue after the ack.
FailedThenSucceeded(m) ==
  /\ Len(hist[m]) >= 2
  /\ hist[m][1].handler = "fail"
  /\ hist[m][2].handler = "ok"

C13_TwoDeliveriesOneAck ==
  \A m \in Msgs :
    FailedThenSucceeded(m) =>
      /\ delivs[m] = 2
      /\ Len(hist[m]) = 2
      /\ hist[m][1].nacks = 1 /\ hist[m][1].requeue /\ hist[m][1].acks = 0
      /\ hist[m][2].acks = 1 /\ hist[m][2].nacks = 0
      /\ m \in acked
      /\ ~InQueue(m) /\ m \notin inflight /\ m \notin dlq

\* the scenario, with the other message still waiting
C13_Witness ==
  \E m \in Msgs : FailedThenSucceeded(m) /\ m \in acked /\ ready # <<>>

\* C11: on every channel that has consumers the deliveries not yet acked or nacked
\* never exceed the channel's prefetch count, and a channel has its prefetch
\* count set before a consumer is attached to it.
C11_PrefetchBoundsChannel ==
  \A i \in 1..Len(chans) :
    (\E g \in Callers : gPc[g] = "consuming" /\ gRet[g].chan = i)
      => /\ chans[i].qos = Prefetch
         /\ Unsettled(i) <= chans[i].qos

\* C14: of concurrent getChannel calls for one name at most one creates a
\* channel, and all of them return the same channel.
C14_OneChannelPerName ==
  /\ \A i, j \in 1..Len(chans) : chans[i].name = chans[j].name => i = j
  /\ \A g, h \in Callers :
       (gName[g] = gName[h] /\ gRet[g].chan # 0 /\ gRet[h].chan # 0)
         => gRet[g].chan = gRet[h].chan

\* C15: getChannel returns no channel, cached or new, while the pool is marked
\* disconnected.
C15_NoChannelWhileDisconnected ==
  \A g \in Callers : gRet[g].chan # 0 => gRet[g].connected

\* C16: with the pool connected, getChannel returns a healthy channel: never the
\* closed channel of a connection that failed and was replaced by connect().
C16_OnlyHealthyChannels ==
  \A g \in Callers :
    (gRet[g].chan # 0 /\ gRet[g].connected) => gRet[g].open

\* C17: when disconnect() returns, the connection is closed, every channel of the
\* pool is closed, the channel map is empty and isConnected() is false, also
\* when a close reported an error.
C17_DisconnectClosesAll ==
  disc.returned =>
    /\ ~disc.connOpen
    /\ disc.openChans = 0
    /\ disc.mapSize = 0
    /\ ~disc.connected

\* C20: publish and sendToQueue return false for broker backpressure only, and
\* raise an error when the channel is unusable.
C20_FalseMeansBackpressure ==
  \A g \in Callers :
    /\ sent[g].ret = "false" => sent[g].cause = "backpressure"
    /\ sent[g].cause = "unusable" => sent[g].ret = "throws"

C19_ConflictRejectsConnect ==
  failedAt # 0 =>
    /\ connectResult = Rejected("topology")
    /\ declPc = 0
    /\ asserts = failedAt
    /\ done = 0

\* a queue declared by another client with other arguments stopped connect()
C19_Witness ==
  /\ failedAt > 5
  /\ \E e \in broker : e.kind = "queue" /\ e.args = ForeignArgs
  /\ connectResult.state = "rejected"

\* C22: publishWithRetry returns true at the first invocation of publishFunction
\* that returns true: that invocation is the last one and no delay follows it.
C22_TrueReturnsAtOnce ==
  \A n \in 1..Len(opResults) :
    opResults[n] = "true" =>
      /\ n = Len(opResults)
      /\ Len(waits) = n - 1
      /\ retryPc = "returned"
      /\ retryResult = RetryReturned(TRUE)

\* a true after two failed attempts
C22_Witness ==
  /\ Len(opResults) = 3
  /\ opResults[3] = "true"
  /\ retryPc = "returned"

RetryFinished == retryPc \in {"returned", "threw"}

\* C23: whatever publishFunction does, it is invoked at most maxRetries times and
\* the call of publishWithRetry ends, by returning or by throwing.
C23_BoundedAndTerminates ==
  /\ [](Len(opResults) <= maxRetries)
  /\ (retryPc # "idle") ~> RetryFinished

\* every allowed attempt was used
C23_Witness ==
  /\ maxRetries = MaxAttempts
  /\ Len(opResults) = maxRetries
  /\ RetryFinished

\* the first k invocations returned false and the next one true
FalseThenTrue(k) ==
  /\ Len(opResults) > k
  /\ \A n \in 1..k : opResults[n] = "false"
  /\ opResults[k + 1] = "true"

\* C24: after k times false and then true the call returns true with k + 1
\* invocations made, and the wait after the n-th failed attempt was
\* delayMs * 2^(n-1).
C24_DoublingDelays ==
  \A k \in 0..MaxAttempts :
    FalseThenTrue(k) =>
      /\ retryResult = RetryReturned(TRUE)
      /\ Len(opResults) = k + 1
      /\ Len(waits) = k
      /\ \A n \in 1..k : waits[n] = delayMs * 2^(n - 1)
      /\ \A n \in 2..k : waits[n] = 2 * waits[n - 1]

\* false, false, false, true with maxRetries = 5 and delayMs = 1000
C24_Witness ==
  /\ maxRetries = 5
  /\ delayMs = 1000
  /\ opResults = <<"false", "false", "false", "true">>
  /\ waits = <<1000, 2000, 4000>>
  /\ retryResult = RetryReturned(TRUE)

\* C25: after an attempt that threw, with attempts remaining, the next attempt
\* comes only after a wait of delayMs * 2^(attempt-1), as after a false.
C25_WaitAfterThrow ==
  \A n \in 1..Len(waits) :
    (opResults[n] = "throw" /\ n < maxRetries) => waits[n] = delayMs * 2^(n - 1)

\* C26: when every attempt failed, the call returns false if the last attempt
\* returned false and throws the last attempt's error if it threw; the error
\* of an earlier attempt is never thrown to the caller.
C26_LastAttemptDecides ==
  /\ retryResult.kind = "threw" =>
       /\ Len(opResults) = maxRetries
       /\ opResults[maxRetries] = "throw"
       /\ retryResult.err = maxRetries
  /\ ( /\ RetryFinished
       /\ maxRetries > 0
       /\ Len(opResults) = maxRetries
       /\ \A n \in 1..maxRetries : opResults[n] # "true" )
     => IF opResults[maxRetries] = "false"
          THEN retryResult = RetryReturned(FALSE)
          ELSE retryResult = RetryThrew(maxRetries)

\* an error in the first of two attempts, false in the second
C26_Witness ==
  /\ maxRetries = 2
  /\ opResults = <<"throw", "false">>
  /\ retryResult = RetryReturned(FALSE)

\* C30: in rpc the reply queue has its consumer before the request is published,
\* and the timer is started only after the publish step: a request that a
\* responder can see always has a consumer waiting for the reply.
C30_ConsumeBeforeSendBeforeTimer ==
  \A c \in Calls :
    /\ request[c] # "none" => (tempQueue[c] /\ consumer[c])
    /\ timer[c] # "none" => request[c] # "none"
    /\ rpcPc[c] = "send" => (consumer[c] /\ request[c] = "none" /\ timer[c] = "none")

\* both calls have published their request and started their timer
C30_Witness ==
  \A c \in Calls : request[c] = "sent" /\ consumer[c] /\ timer[c] = "armed"


(***************************************************************************)
(* Properties of envelopes.                                                *)
(***************************************************************************)
IsHanded == handed.api \in {"publish", "sendToQueue"}

\* C21: whatever options the caller passes, the message publish and
\* sendToQueue hand to the broker is persistent and carries the envelope's id,
\* timestamp and type as messageId, timestamp and type
C21_BrokerMetadataFromEnvelope ==
  IsHanded =>
    /\ Get(handed.props, "persistent") = Bool(TRUE)
    /\ Get(handed.props, "messageId") = Get(env, "id")
    /\ Get(handed.props, "timestamp") = Get(env, "timestamp")
    /\ Get(handed.props, "type") = Get(env, "type")

\* two values are equal in every field: the same primitive, or objects whose
\* properties are equal one by one (a missing property reads as undefined)
RECURSIVE SameValue(_, _)
SameValue(a, b) ==
  IF a.t = "object" /\ b.t = "object"
    THEN \A k \in DOMAIN a.o \cup DOMAIN b.o : SameValue(Get(a, k), Get(b, k))
    ELSE a = b

EnvelopeFields == {"id", "type", "timestamp", "data", "metadata"}
MetadataFields == {"correlationId", "replyTo", "priority", "ttl"}

\* C28: the envelope a consumer parses out of the body equals the envelope
\* that was serialized, in id, type, timestamp, data and in each field of
\* metadata, also when the envelope has no metadata
C28_RoundTrip ==
  parsed # Undefined =>
    /\ \A f \in EnvelopeFields : SameValue(Get(parsed, f), Get(env, f))
    /\ \A f \in MetadataFields :
         SameValue(Get(Get(parsed, "metadata"), f), Get(Get(env, "metadata"), f))

\* a round trip of an envelope with nested data and all four metadata fields
C28_Witness ==
  /\ parsed # Undefined
  /\ Get(Get(env, "data"), "order").t = "object"
  /\ Get(Get(parsed, "metadata"), "ttl") = Num(60)
  /\ Get(Get(parsed, "metadata"), "replyTo") = Str("q1")

\* C29: an envelope made by createMessage or a business publisher, and an
\* envelope handed to the broker by publish or sendToQueue, has a non-empty id
\* and a non-empty type
C29_IdAndTypeNonEmpty ==
  (made # "none" \/ IsHanded) =>
    /\ Get(env, "id").t = "string" /\ Get(env, "id").s # ""
    /\ Get(env, "type").t = "string" /\ Get(env, "type").s # ""


(***************************************************************************)
(* Properties of the payment.confirmed scenario.                           *)
(***************************************************************************)
IsEvent(m) == pub[m] # Undefined

\* message m is published to payment.events while a binding of the queue matches
PublishedWhileBound(m) ==
  ~IsEvent(m) /\ IsEvent(m)' /\ (\E key \in bindings : Matches(key, RoutingKey))

\* C27: an envelope published to payment.events with routing key
\* payment.confirmed while the queue is bound to that key is put on the queue;
\* from there it reaches the consumer's handler with the id it was published
\* with (unless its 24 hours on the queue run out first); once it is acked it is
\* neither on the queue nor with the consumer, stays acked and is not delivered
\* again
C27_PaymentConfirmedScenario ==
  /\ [][\A m \in Msgs : PublishedWhileBound(m) => InQueue(m)']_vars
  /\ \A m \in Msgs :
       (IsEvent(m) /\ InQueue(m) /\ subscribed)
         ~> (m \in dlq \/ (got[m] # Undefined /\ delivs[m] > 0))
  /\ [](\A m \in Msgs :
         (IsEvent(m) /\ got[m] # Undefined) => Get(got[m], "id") = Get(pub[m], "id"))
  /\ [](\A m \in Msgs :
         (IsEvent(m) /\ m \in acked) => ~InQueue(m) /\ m \notin inflight /\ m \notin dlq)
  /\ [][\A m \in Msgs :
         (IsEvent(m) /\ m \in acked) => m \in acked' /\ delivs'[m] = delivs[m]]_vars

\* the envelope with id p1 was delivered once, its handler succeeded and it was
\* acked
C27_Witness ==
  \E m \in Msgs :
    /\ Get(pub[m], "id") = Str("p1")
    /\ Get(got[m], "id") = Str("p1")
    /\ last[m].handler = "ok"
    /\ delivs[m] = 1
    /\ m \in acked


(***************************************************************************)
(* Properties of concurrent rpc calls.                                     *)
(***************************************************************************)
\* the timer of call c fires in this step
TimerStep(c) == timer[c] = "armed" /\ timer'[c] = "fired"

\* the broker can deliver to the reply subscription of call c
CanDeliver(c) ==
  /\ consumer[c]
  /\ HasReady(replies[c])
  /\ Cardinality(Unacked(replies[c])) < Prefetch

\* C31: two rpc calls never have the same reply queue, and a step in which a
\* reply or duplicate is delivered to call a, or the timer of call a fires,
\* leaves the promise, the timer and the reply queue of every other call b as
\* they were and does not close b's delivery window
C31_CallsIsolated ==
  /\ [](\A a, b \in Calls :
         (a # b /\ replyQ[a].name # "" /\ replyQ[b].name # "")
           => replyQ[a].name # replyQ[b].name)
  /\ [][\A a, b \in Calls :
         (a # b /\ (DeliveryStep(a) \/ TimerStep(a))) =>
           /\ promise'[b] = promise[b]
           /\ timer'[b] = timer[b]
           /\ replies'[b] = replies[b]
           /\ CanDeliver(b) => CanDeliver(b)']_vars

\* both calls were in flight with the same request id; the first timed out, the
\* second was resolved by its reply while its own timer was still armed
C31_Witness ==
  /\ reqId["c1"] = reqId["c2"]
  /\ replyQ["c1"].name # "" /\ replyQ["c2"].name # ""
  /\ promise["c1"] = Timeout
  /\ promise["c2"].state = "resolved"
  /\ timer["c2"] = "armed"

\* C33: the request rpc hands over carries correlationId = request.id and
\* replyTo = the broker-given name of the exclusive, auto-delete queue that this
\* call declared and subscribed to
C33_RequestNamesOwnReplyQueue ==
  \A c \in Calls :
    request[c] = "sent" =>
      /\ Get(reqProps[c], "correlationId") = Str(reqId[c])
      /\ Get(reqProps[c], "replyTo") = Str(replyQ[c].name)
      /\ replyQ[c].name \in ServerNames
      /\ replyQ[c].exclusive /\ replyQ[c].autoDelete
      /\ tempQueue[c] /\ consumer[c]

\* two requests sent, each naming its own reply queue
C33_Witness ==
  /\ \A c \in Calls : request[c] = "sent"
  /\ Get(reqProps["c1"], "replyTo") # Get(reqProps["c2"], "replyTo")


(***************************************************************************)
(* Properties of consumers of distinct queues.                             *)
(***************************************************************************)
\* g and h are consumers of different queues
OnDistinctQueues(g, h) ==
  /\ g # h
  /\ gPc[g] = "consuming" /\ gPc[h] = "consuming"
  /\ gQueue[g] # gQueue[h]

\* the broker may deliver to the consumer of g: its channel is open and its
\* prefetch window has room
CanReceive(g) ==
  /\ gPc[g] = "consuming"
  /\ chans[gRet[g].chan].open
  /\ ConsumerLimit(g) = 0 \/ held[g] < ConsumerLimit(g)

\* C32: consumers of different queues are on different channels, each named
\* after its queue and holding no deliveries but those of its own consumer;
\* a delivery to the consumer of one queue, or its ack or nack, changes neither
\* the unsettled deliveries nor the channel of the other and does not close the
\* other's prefetch window, however many deliveries the first leaves unsettled
C32_QueuesIndependent ==
  /\ [](\A g, h \in Callers :
         OnDistinctQueues(g, h) =>
           /\ gRet[g].chan # gRet[h].chan
           /\ chans[gRet[g].chan].name = ConsumerKey(gQueue[g])
           /\ Unsettled(gRet[h].chan) = held[h]
           /\ (held[h] < Prefetch /\ chans[gRet[h].chan].open) => CanReceive(h))
  /\ [][\A g, h \in Callers :
         (OnDistinctQueues(g, h) /\ held'[g] # held[g]) =>
           /\ held'[h] = held[h]
           /\ chans'[gRet[h].chan] = chans[gRet[h].chan]
           /\ CanReceive(h) => CanReceive(h)']_vars

\* the handler of one queue has its prefetch window full and settles nothing,
\* while the consumer of the other queue has deliveries and room for more
C32_Witness ==
  \E g, h \in Callers :
    /\ OnDistinctQueues(g, h)
    /\ held[g] = Prefetch /\ ~CanReceive(g)
    /\ held[h] > 0 /\ CanReceive(h)


(***************************************************************************)
(* Properties of the declared topology.                                    *)
(***************************************************************************)
\* EXCHANGES, lines 23-29, and QUEUES, lines 8-21
ExchangeNames ==
  {"payment.events", "loyalty.events", "tip.events", "system.events", "compliance.events"}
QueueNames ==
  {"payment.processing", "payment.confirmed", "payment.failed",
   "loyalty.points.earned", "loyalty.points.redeemed", "tip.processing",
   "tip.settled", "webhook.notification", "compliance.check", "analytics.event",
   "notification.email", "notification.sms"}

Has(kind, name) == {e \in broker : e.kind = kind /\ e.name = name}

\* all the exchanges of EXCHANGES and all the queues of QUEUES exist
DescriptorDeclared ==
  /\ \A n \in ExchangeNames : Has("exchange", n) # {}
  /\ \A n \in QueueNames : Has("queue", n) # {}

DayMs == 24 * 60 * 60 * 1000

\* C34: after connect() has declared the topology, every exchange of EXCHANGES
\* and every queue of QUEUES exists, each of these queues with dead-letter
\* exchange 'dead-letter', a message TTL of 24 hours and max priority 10; the
\* fanout exchange 'dead-letter' and the queue 'dead-letter-queue' exist and
\* are bound with the empty key; and the step that declares 'dead-letter' or
\* 'dead-letter-queue' finds all those exchanges and queues declared
C34_TopologyDeclared ==
  /\ [](done >= 1 =>
         /\ DescriptorDeclared
         /\ \A n \in QueueNames : \A e \in Has("queue", n) :
              e.args.dlx = "dead-letter" /\ e.args.ttl = DayMs /\ e.args.priority = 10
         /\ \A e \in Has("exchange", "dead-letter") : e.type = "fanout"
         /\ Has("exchange", "dead-letter") # {}
         /\ Has("queue", "dead-letter-queue") # {}
         /\ \E e \in Has("binding", "dead-letter-queue") :
              e.type = "dead-letter" /\ e.key = "")
  /\ [][(declPc # 0 /\ broker' # broker
           /\ Descriptor[declPc].name \in {"dead-letter", "dead-letter-queue"})
          => DescriptorDeclared]_vars

\* a declaration that ran to its end
C34_Witness ==
  /\ done = 1 /\ runs = 1 /\ declPc = 0
  /\ Cardinality(broker) = Len(Descriptor)

TopologyBindings == {e \in broker : e.kind = "binding"}

\* the queues a message published to the exchange with the routing key goes to
RoutedTo(exchange, routingKey) ==
  {e.name : e \in {x \in TopologyBindings :
                      x.type = exchange /\ (x.key = routingKey \/ x.key = "#")}}

\* C38: the only binding connect() ever declares is that of 'dead-letter-queue'
\* to 'dead-letter', and after the declaration it is there; no queue of QUEUES
\* is bound to an exchange of EXCHANGES, so what is published to one of these
\* exchanges, under any routing key, goes to no queue
C38_OnlyDeadLetterBound ==
  /\ TopologyBindings \subseteq {Binding("dead-letter-queue", "dead-letter", "")}
  /\ done >= 1 => Cardinality(TopologyBindings) = 1
  /\ \A e \in TopologyBindings : e.name \notin QueueNames /\ e.type \notin ExchangeNames
  /\ \A x \in ExchangeNames : \A k \in QueueNames \cup {""} : RoutedTo(x, k) = {}

\* the whole topology is declared and payment.events routes payment.confirmed
\* nowhere
C38_Witness ==
  /\ done >= 1
  /\ Has("exchange", "payment.events") # {}
  /\ Has("queue", "payment.confirmed") # {}
  /\ RoutedTo("payment.events", "payment.confirmed") = {}
  /\ Cardinality(TopologyBindings) = 1


(***************************************************************************)
(* Properties of the connection state.                                     *)
(***************************************************************************)
\* C35: an 'error' or 'close' event of the connection marks the pool
\* disconnected and does nothing else: when its handler has run there is no
\* open connection, no channel was created and the channel map is as it was;
\* the pool has an open connection again only through a step of connect()
C35_NoAutomaticReconnect ==
  /\ [](lost.happened =>
         /\ lost.marked
         /\ ~lost.reopened
         /\ lost.created = 0
         /\ ~lost.mapChanged)
  /\ [][(~connOpen /\ connOpen') => \E ok \in BOOLEAN : PoolConnect(ok)]_vars
  /\ [][(lost.happened /\ ~connOpen /\ ~(\E ok \in BOOLEAN : PoolConnect(ok)))
          => (~connOpen' /\ (~connected => ~connected'))]_vars

\* the connection was lost with channels in the map and nobody has called
\* connect() since: the pool is still disconnected, the map still has them
C35_Witness ==
  /\ lost.happened
  /\ ~connected /\ ~connOpen
  /\ connection = "conn"
  /\ "publisher" \in channels
  /\ \E g \in Callers : gPc[g] = "threw"


\* C36: isConnected() is true only if the most recent connect() completed
\* successfully, topology declaration included: once connect() has settled,
\* this.connected is true only if it resolved, and it is false when connect()
\* rejected because the declaration failed
C36_ConnectedOnlyAfterTopology ==
  (declPc = 0 /\ connected) => connectResult = Resolved(0)


\* what the callback has sent to the broker for a delivery
Settlements(d) == d.acks + d.nacks

\* C37: every delivery handed to the consumer callback is settled exactly once,
\* by an ack or by a nack, never both and never twice, and only after the
\* handler has finished or the body failed to parse: a delivery the callback is
\* still working on is unsettled and unacknowledged at the broker, a finished
\* one has one settlement, and the settlement is issued in the step in which
\* the handler's promise settles or JSON.parse throws.
C37_SettledExactlyOnce ==
  /\ [](\A m \in Msgs :
         /\ last[m].phase \in {"delivered", "handler"}
              => (Settlements(last[m]) = 0 /\ m \in inflight)
         /\ last[m].phase = "done"
              => (Settlements(last[m]) = 1 /\ m \notin inflight)
         /\ \A i \in 1..Len(hist[m]) : Settlements(hist[m][i]) = 1)
  /\ [][\A m \in Msgs :
         Settlements(last'[m]) > Settlements(last[m])
         => \/ /\ last[m].phase = "handler"
               /\ last'[m].handler \in {"ok", "fail"}
               /\ last'[m].acks = (IF last'[m].handler = "ok" THEN 1 ELSE 0)
            \/ /\ last[m].phase = "delivered"
               /\ ~JsonParse(content[m]).ok
               /\ last'[m].handler = "none"]_vars

\* a message acked on its third delivery, after a nack of each of the first two,
\* while another message was nacked without reaching the handler
C37_Witness ==
  \E m, n \in Msgs :
    /\ Len(hist[m]) = 3
    /\ hist[m][1].nacks = 1 /\ hist[m][2].nacks = 1 /\ hist[m][3].acks = 1
    /\ last[n].phase = "done" /\ ~last[n].parsed /\ last[n].nacks = 1


(***************************************************************************)
(* Properties of rpc when the request is not accepted.                     *)
(***************************************************************************)
\* sendToQueue returned false to rpc
NotAccepted(c) == request[c] = "refused"

\* this step settles the promise of call c
Settles(c) == promise[c].state = "pending" /\ promise'[c].state # "pending"

\* this step hands a message with the call's correlation id to its callback
MatchingDelivery(c) ==
  \E i \in 1..Len(replies[c]) :
    /\ replies[c][i].st = "ready"
    /\ replies'[c][i].st # "ready"
    /\ replies[c][i].corr = reqId[c]

\* C39 as stated: when sendToQueue returns false inside rpc, the call is not
\* rejected with a publish error, the timer is started all the same, and the
\* call settles only by the timer rejecting it with the timeout error.
C39_RefusedRequestOnlyTimesOut ==
  /\ [](\A c \in Calls : NotAccepted(c) => timer[c] \in {"armed", "fired"})
  /\ [][\A c \in Calls :
         (NotAccepted(c)' /\ Settles(c))
         => (timer[c] = "armed" /\ timer'[c] = "fired" /\ promise'[c] = Timeout)]_vars

\* C39, amended: when sendToQueue returns false inside rpc, the call is not
\* rejected with a publish error and the timer is started all the same; the
\* call is then settled by the timer, with the timeout error, or by a delivery
\* that carries its correlation id, whichever comes first, and by nothing else.
C39_RefusedRequestTimesOutOrIsAnswered ==
  /\ [](\A c \in Calls :
         NotAccepted(c) =>
           /\ timer[c] \in {"armed", "fired"}
           /\ (promise[c].state # "pending" /\ Matching(c) = {})
                => (promise[c] = Timeout /\ timer[c] = "fired"))
  /\ [][\A c \in Calls :
         (NotAccepted(c)' /\ Settles(c))
         => \/ timer[c] = "armed" /\ timer'[c] = "fired" /\ promise'[c] = Timeout
            \/ MatchingDelivery(c) /\ NotAccepted(c)]_vars

\* two calls whose request was not accepted: one timed out without a delivery of
\* its own, the other was answered before its timer fired
C39_Witness ==
  \E c, d \in Calls :
    /\ request[c] = "refused" /\ promise[c] = Timeout /\ Matching(c) = {}
    /\ request[d] = "refused" /\ promise[d].state = "resolved" /\ timer[d] = "armed"

=============================================================================
